---------------------------- MODULE Spec2Model ----------------------------
(***************************************************************************)
(* Verification model of the splashsurf surface reconstruction library:    *)
(*   - the marching cubes lookup table and its triangulation iterator      *)
(*     (splashsurf_lib/src/marching_cubes/marching_cubes_lut.rs),           *)
(*   - the reconstruction entry points and the output handle               *)
(*     (splashsurf_lib/src/lib.rs, splashsurf_lib/src/workspace.rs).        *)
(* Arrays keep the 0-based indices of the source: a Rust array [T; n] is a *)
(* function with domain 0..n-1, except the rows of the lookup table, which *)
(* are tuples read through At(row, j).                                     *)
(***************************************************************************)
EXTENDS Integers, Sequences, FiniteSets, TLC

VARIABLES
    case,             \* test_lut: the case number i the flags are made from
    vertices_inside,  \* the [bool; 8] argument of the lookup functions
    lut_pc,           \* position in marching_cubes_triangulation_iter
    index,            \* get_marching_cubes_triangulation_raw: let index
    triangulation,    \* the row of the table the iterator holds
    tri_i,            \* the position of the iterator's range (0..5)
    yielded,          \* the triangles the iterator has yielded so far
    output_surface,   \* the caller's SurfaceReconstruction handle
    call,             \* the arguments of the last reconstruction call
    ret,              \* what the last reconstruction call returned
    cloned,           \* Some of the clone last taken of the handle, or None
    pool,             \* rayon's global thread pool: None, or Some of its size
    pool_log,         \* the calls of initialize_thread_pool made so far
    conv_in,          \* the Parameters<R> try_convert is called on
    conv_out,         \* what try_convert returned (Pending before the call)
    mono_in,          \* the corner densities of a cube and two thresholds
    mono_out,         \* the triangles of the cube for each of the thresholds
    vtk_in,           \* the VTK data set load_as_surface_mesh is called on
    vtk_out,          \* what load_as_surface_mesh returned
    grid_in,          \* a grid's points per axis and the index a lookup is given
    grid_out,         \* what the grid's index functions returned for it
    shared_workspace, \* a ReconstructionWorkspace several threads call into
    ws_pc,            \* per thread: its position in its use of the workspace
    ws_arg,           \* per thread: the accessor it is inside of and its capacity
    ws_ref,           \* per thread: the local workspace it holds a reference to
    ws_first,         \* per thread: the local workspace its first call returned
    ws_borrow         \* per local workspace: the thread that has borrowed it

lutVars == <<case, vertices_inside, lut_pc, index, triangulation, tri_i, yielded>>

reconVars == <<output_surface, call, ret, cloned>>

poolVars == <<pool, pool_log>>

convVars == <<conv_in, conv_out>>

monoVars == <<mono_in, mono_out>>

vtkVars == <<vtk_in, vtk_out>>

gridVars == <<grid_in, grid_out>>

wsVars == <<shared_workspace, ws_pc, ws_arg, ws_ref, ws_first, ws_borrow>>

vars == <<lutVars, reconVars, poolVars, convVars, monoVars, vtkVars, gridVars, wsVars>>

\* The variables a step of one part of the library leaves alone.
exceptLut == <<reconVars, poolVars, convVars, monoVars, vtkVars, gridVars, wsVars>>
exceptRecon == <<lutVars, poolVars, convVars, monoVars, vtkVars, gridVars, wsVars>>
exceptPool == <<lutVars, reconVars, convVars, monoVars, vtkVars, gridVars, wsVars>>
exceptConv == <<lutVars, reconVars, poolVars, monoVars, vtkVars, gridVars, wsVars>>
exceptMono == <<lutVars, reconVars, poolVars, convVars, vtkVars, gridVars, wsVars>>
exceptVtk == <<lutVars, reconVars, poolVars, convVars, monoVars, gridVars, wsVars>>
exceptGrid == <<lutVars, reconVars, poolVars, convVars, monoVars, vtkVars, wsVars>>
exceptWs == <<lutVars, reconVars, poolVars, convVars, monoVars, vtkVars, gridVars>>

-----------------------------------------------------------------------------
(* marching_cubes_lut.rs                                                   *)

\* The classic marching cubes table: 256 rows of 16 entries.
ClassicTable ==
  <<
  <<-1, -1, -1, -1, -1, -1, -1, -1, -1, -1, -1, -1, -1, -1, -1, -1>>,  \* 0
  << 0,  8,  3, -1, -1, -1, -1, -1, -1, -1, -1, -1, -1, -1, -1, -1>>,  \* 1
  << 0,  1,  9, -1, -1, -1, -1, -1, -1, -1, -1, -1, -1, -1, -1, -1>>,  \* 2
  << 1,  8,  3,  9,  8,  1, -1, -1, -1, -1, -1, -1, -1, -1, -1, -1>>,  \* 3
  << 1,  2, 10, -1, -1, -1, -1, -1, -1, -1, -1, -1, -1, -1, -1, -1>>,  \* 4
  << 0,  8,  3,  1,  2, 10, -1, -1, -1, -1, -1, -1, -1, -1, -1, -1>>,  \* 5
  << 9,  2, 10,  0,  2,  9, -1, -1, -1, -1, -1, -1, -1, -1, -1, -1>>,  \* 6
  << 2,  8,  3,  2, 10,  8, 10,  9,  8, -1, -1, -1, -1, -1, -1, -1>>,  \* 7
  << 3, 11,  2, -1, -1, -1, -1, -1, -1, -1, -1, -1, -1, -1, -1, -1>>,  \* 8
  << 0, 11,  2,  8, 11,  0, -1, -1, -1, -1, -1, -1, -1, -1, -1, -1>>,  \* 9
  << 1,  9,  0,  2,  3, 11, -1, -1, -1, -1, -1, -1, -1, -1, -1, -1>>,  \* 10
  << 1, 11,  2,  1,  9, 11,  9,  8, 11, -1, -1, -1, -1, -1, -1, -1>>,  \* 11
  << 3, 10,  1, 11, 10,  3, -1, -1, -1, -1, -1, -1, -1, -1, -1, -1>>,  \* 12
  << 0, 10,  1,  0,  8, 10,  8, 11, 10, -1, -1, -1, -1, -1, -1, -1>>,  \* 13
  << 3,  9,  0,  3, 11,  9, 11, 10,  9, -1, -1, -1, -1, -1, -1, -1>>,  \* 14
  << 9,  8, 10, 10,  8, 11, -1, -1, -1, -1, -1, -1, -1, -1, -1, -1>>,  \* 15
  << 4,  7,  8, -1, -1, -1, -1, -1, -1, -1, -1, -1, -1, -1, -1, -1>>,  \* 16
  << 4,  3,  0,  7,  3,  4, -1, -1, -1, -1, -1, -1, -1, -1, -1, -1>>,  \* 17
  << 0,  1,  9,  8,  4,  7, -1, -1, -1, -1, -1, -1, -1, -1, -1, -1>>,  \* 18
  << 4,  1,  9,  4,  7,  1,  7,  3,  1, -1, -1, -1, -1, -1, -1, -1>>,  \* 19
  << 1,  2, 10,  8,  4,  7, -1, -1, -1, -1, -1, -1, -1, -1, -1, -1>>,  \* 20
  << 3,  4,  7,  3,  0,  4,  1,  2, 10, -1, -1, -1, -1, -1, -1, -1>>,  \* 21
  << 9,  2, 10,  9,  0,  2,  8,  4,  7, -1, -1, -1, -1, -1, -1, -1>>,  \* 22
  << 2, 10,  9,  2,  9,  7,  2,  7,  3,  7,  9,  4, -1, -1, -1, -1>>,  \* 23
  << 8,  4,  7,  3, 11,  2, -1, -1, -1, -1, -1, -1, -1, -1, -1, -1>>,  \* 24
  <<11,  4,  7, 11,  2,  4,  2,  0,  4, -1, -1, -1, -1, -1, -1, -1>>,  \* 25
  << 9,  0,  1,  8,  4,  7,  2,  3, 11, -1, -1, -1, -1, -1, -1, -1>>,  \* 26
  << 4,  7, 11,  9,  4, 11,  9, 11,  2,  9,  2,  1, -1, -1, -1, -1>>,  \* 27
  << 3, 10,  1,  3, 11, 10,  7,  8,  4, -1, -1, -1, -1, -1, -1, -1>>,  \* 28
  << 1, 11, 10,  1,  4, 11,  1,  0,  4,  7, 11,  4, -1, -1, -1, -1>>,  \* 29
  << 4,  7,  8,  9,  0, 11,  9, 11, 10, 11,  0,  3, -1, -1, -1, -1>>,  \* 30
  << 4,  7, 11,  4, 11,  9,  9, 11, 10, -1, -1, -1, -1, -1, -1, -1>>,  \* 31
  << 9,  5,  4, -1, -1, -1, -1, -1, -1, -1, -1, -1, -1, -1, -1, -1>>,  \* 32
  << 9,  5,  4,  0,  8,  3, -1, -1, -1, -1, -1, -1, -1, -1, -1, -1>>,  \* 33
  << 0,  5,  4,  1,  5,  0, -1, -1, -1, -1, -1, -1, -1, -1, -1, -1>>,  \* 34
  << 8,  5,  4,  8,  3,  5,  3,  1,  5, -1, -1, -1, -1, -1, -1, -1>>,  \* 35
  << 1,  2, 10,  9,  5,  4, -1, -1, -1, -1, -1, -1, -1, -1, -1, -1>>,  \* 36
  << 3,  0,  8,  1,  2, 10,  4,  9,  5, -1, -1, -1, -1, -1, -1, -1>>,  \* 37
  << 5,  2, 10,  5,  4,  2,  4,  0,  2, -1, -1, -1, -1, -1, -1, -1>>,  \* 38
  << 2, 10,  5,  3,  2,  5,  3,  5,  4,  3,  4,  8, -1, -1, -1, -1>>,  \* 39
  << 9,  5,  4,  2,  3, 11, -1, -1, -1, -1, -1, -1, -1, -1, -1, -1>>,  \* 40
  << 0, 11,  2,  0,  8, 11,  4,  9,  5, -1, -1, -1, -1, -1, -1, -1>>,  \* 41
  << 0,  5,  4,  0,  1,  5,  2,  3, 11, -1, -1, -1, -1, -1, -1, -1>>,  \* 42
  << 2,  1,  5,  2,  5,  8,  2,  8, 11,  4,  8,  5, -1, -1, -1, -1>>,  \* 43
  <<10,  3, 11, 10,  1,  3,  9,  5,  4, -1, -1, -1, -1, -1, -1, -1>>,  \* 44
  << 4,  9,  5,  0,  8,  1,  8, 10,  1,  8, 11, 10, -1, -1, -1, -1>>,  \* 45
  << 5,  4,  0,  5,  0, 11,  5, 11, 10, 11,  0,  3, -1, -1, -1, -1>>,  \* 46
  << 5,  4,  8,  5,  8, 10, 10,  8, 11, -1, -1, -1, -1, -1, -1, -1>>,  \* 47
  << 9,  7,  8,  5,  7,  9, -1, -1, -1, -1, -1, -1, -1, -1, -1, -1>>,  \* 48
  << 9,  3,  0,  9,  5,  3,  5,  7,  3, -1, -1, -1, -1, -1, -1, -1>>,  \* 49
  << 0,  7,  8,  0,  1,  7,  1,  5,  7, -1, -1, -1, -1, -1, -1, -1>>,  \* 50
  << 1,  5,  3,  3,  5,  7, -1, -1, -1, -1, -1, -1, -1, -1, -1, -1>>,  \* 51
  << 9,  7,  8,  9,  5,  7, 10,  1,  2, -1, -1, -1, -1, -1, -1, -1>>,  \* 52
  <<10,  1,  2,  9,  5,  0,  5,  3,  0,  5,  7,  3, -1, -1, -1, -1>>,  \* 53
  << 8,  0,  2,  8,  2,  5,  8,  5,  7, 10,  5,  2, -1, -1, -1, -1>>,  \* 54
  << 2, 10,  5,  2,  5,  3,  3,  5,  7, -1, -1, -1, -1, -1, -1, -1>>,  \* 55
  << 7,  9,  5,  7,  8,  9,  3, 11,  2, -1, -1, -1, -1, -1, -1, -1>>,  \* 56
  << 9,  5,  7,  9,  7,  2,  9,  2,  0,  2,  7, 11, -1, -1, -1, -1>>,  \* 57
  << 2,  3, 11,  0,  1,  8,  1,  7,  8,  1,  5,  7, -1, -1, -1, -1>>,  \* 58
  <<11,  2,  1, 11,  1,  7,  7,  1,  5, -1, -1, -1, -1, -1, -1, -1>>,  \* 59
  << 9,  5,  8,  8,  5,  7, 10,  1,  3, 10,  3, 11, -1, -1, -1, -1>>,  \* 60
  << 5,  7,  0,  5,  0,  9,  7, 11,  0,  1,  0, 10, 11, 10,  0, -1>>,  \* 61
  <<11, 10,  0, 11,  0,  3, 10,  5,  0,  8,  0,  7,  5,  7,  0, -1>>,  \* 62
  <<11, 10,  5,  7, 11,  5, -1, -1, -1, -1, -1, -1, -1, -1, -1, -1>>,  \* 63
  <<10,  6,  5, -1, -1, -1, -1, -1, -1, -1, -1, -1, -1, -1, -1, -1>>,  \* 64
  << 0,  8,  3,  5, 10,  6, -1, -1, -1, -1, -1, -1, -1, -1, -1, -1>>,  \* 65
  << 9,  0,  1,  5, 10,  6, -1, -1, -1, -1, -1, -1, -1, -1, -1, -1>>,  \* 66
  << 1,  8,  3,  1,  9,  8,  5, 10,  6, -1, -1, -1, -1, -1, -1, -1>>,  \* 67
  << 1,  6,  5,  2,  6,  1, -1, -1, -1, -1, -1, -1, -1, -1, -1, -1>>,  \* 68
  << 1,  6,  5,  1,  2,  6,  3,  0,  8, -1, -1, -1, -1, -1, -1, -1>>,  \* 69
  << 9,  6,  5,  9,  0,  6,  0,  2,  6, -1, -1, -1, -1, -1, -1, -1>>,  \* 70
  << 5,  9,  8,  5,  8,  2,  5,  2,  6,  3,  2,  8, -1, -1, -1, -1>>,  \* 71
  << 2,  3, 11, 10,  6,  5, -1, -1, -1, -1, -1, -1, -1, -1, -1, -1>>,  \* 72
  <<11,  0,  8, 11,  2,  0, 10,  6,  5, -1, -1, -1, -1, -1, -1, -1>>,  \* 73
  << 0,  1,  9,  2,  3, 11,  5, 10,  6, -1, -1, -1, -1, -1, -1, -1>>,  \* 74
  << 5, 10,  6,  1,  9,  2,  9, 11,  2,  9,  8, 11, -1, -1, -1, -1>>,  \* 75
  << 6,  3, 11,  6,  5,  3,  5,  1,  3, -1, -1, -1, -1, -1, -1, -1>>,  \* 76
  << 0,  8, 11,  0, 11,  5,  0,  5,  1,  5, 11,  6, -1, -1, -1, -1>>,  \* 77
  << 3, 11,  6,  0,  3,  6,  0,  6,  5,  0,  5,  9, -1, -1, -1, -1>>,  \* 78
  << 6,  5,  9,  6,  9, 11, 11,  9,  8, -1, -1, -1, -1, -1, -1, -1>>,  \* 79
  << 5, 10,  6,  4,  7,  8, -1, -1, -1, -1, -1, -1, -1, -1, -1, -1>>,  \* 80
  << 4,  3,  0,  4,  7,  3,  6,  5, 10, -1, -1, -1, -1, -1, -1, -1>>,  \* 81
  << 1,  9,  0,  5, 10,  6,  8,  4,  7, -1, -1, -1, -1, -1, -1, -1>>,  \* 82
  <<10,  6,  5,  1,  9,  7,  1,  7,  3,  7,  9,  4, -1, -1, -1, -1>>,  \* 83
  << 6,  1,  2,  6,  5,  1,  4,  7,  8, -1, -1, -1, -1, -1, -1, -1>>,  \* 84
  << 1,  2,  5,  5,  2,  6,  3,  0,  4,  3,  4,  7, -1, -1, -1, -1>>,  \* 85
  << 8,  4,  7,  9,  0,  5,  0,  6,  5,  0,  2,  6, -1, -1, -1, -1>>,  \* 86
  << 7,  3,  9,  7,  9,  4,  3,  2,  9,  5,  9,  6,  2,  6,  9, -1>>,  \* 87
  << 3, 11,  2,  7,  8,  4, 10,  6,  5, -1, -1, -1, -1, -1, -1, -1>>,  \* 88
  << 5, 10,  6,  4,  7,  2,  4,  2,  0,  2,  7, 11, -1, -1, -1, -1>>,  \* 89
  << 0,  1,  9,  4,  7,  8,  2,  3, 11,  5, 10,  6, -1, -1, -1, -1>>,  \* 90
  << 9,  2,  1,  9, 11,  2,  9,  4, 11,  7, 11,  4,  5, 10,  6, -1>>,  \* 91
  << 8,  4,  7,  3, 11,  5,  3,  5,  1,  5, 11,  6, -1, -1, -1, -1>>,  \* 92
  << 5,  1, 11,  5, 11,  6,  1,  0, 11,  7, 11,  4,  0,  4, 11, -1>>,  \* 93
  << 0,  5,  9,  0,  6,  5,  0,  3,  6, 11,  6,  3,  8,  4,  7, -1>>,  \* 94
  << 6,  5,  9,  6,  9, 11,  4,  7,  9,  7, 11,  9, -1, -1, -1, -1>>,  \* 95
  <<10,  4,  9,  6,  4, 10, -1, -1, -1, -1, -1, -1, -1, -1, -1, -1>>,  \* 96
  << 4, 10,  6,  4,  9, 10,  0,  8,  3, -1, -1, -1, -1, -1, -1, -1>>,  \* 97
  <<10,  0,  1, 10,  6,  0,  6,  4,  0, -1, -1, -1, -1, -1, -1, -1>>,  \* 98
  << 8,  3,  1,  8,  1,  6,  8,  6,  4,  6,  1, 10, -1, -1, -1, -1>>,  \* 99
  << 1,  4,  9,  1,  2,  4,  2,  6,  4, -1, -1, -1, -1, -1, -1, -1>>,  \* 100
  << 3,  0,  8,  1,  2,  9,  2,  4,  9,  2,  6,  4, -1, -1, -1, -1>>,  \* 101
  << 0,  2,  4,  4,  2,  6, -1, -1, -1, -1, -1, -1, -1, -1, -1, -1>>,  \* 102
  << 8,  3,  2,  8,  2,  4,  4,  2,  6, -1, -1, -1, -1, -1, -1, -1>>,  \* 103
  <<10,  4,  9, 10,  6,  4, 11,  2,  3, -1, -1, -1, -1, -1, -1, -1>>,  \* 104
  << 0,  8,  2,  2,  8, 11,  4,  9, 10,  4, 10,  6, -1, -1, -1, -1>>,  \* 105
  << 3, 11,  2,  0,  1,  6,  0,  6,  4,  6,  1, 10, -1, -1, -1, -1>>,  \* 106
  << 6,  4,  1,  6,  1, 10,  4,  8,  1,  2,  1, 11,  8, 11,  1, -1>>,  \* 107
  << 9,  6,  4,  9,  3,  6,  9,  1,  3, 11,  6,  3, -1, -1, -1, -1>>,  \* 108
  << 8, 11,  1,  8,  1,  0, 11,  6,  1,  9,  1,  4,  6,  4,  1, -1>>,  \* 109
  << 3, 11,  6,  3,  6,  0,  0,  6,  4, -1, -1, -1, -1, -1, -1, -1>>,  \* 110
  << 6,  4,  8, 11,  6,  8, -1, -1, -1, -1, -1, -1, -1, -1, -1, -1>>,  \* 111
  << 7, 10,  6,  7,  8, 10,  8,  9, 10, -1, -1, -1, -1, -1, -1, -1>>,  \* 112
  << 0,  7,  3,  0, 10,  7,  0,  9, 10,  6,  7, 10, -1, -1, -1, -1>>,  \* 113
  <<10,  6,  7,  1, 10,  7,  1,  7,  8,  1,  8,  0, -1, -1, -1, -1>>,  \* 114
  <<10,  6,  7, 10,  7,  1,  1,  7,  3, -1, -1, -1, -1, -1, -1, -1>>,  \* 115
  << 1,  2,  6,  1,  6,  8,  1,  8,  9,  8,  6,  7, -1, -1, -1, -1>>,  \* 116
  << 2,  6,  9,  2,  9,  1,  6,  7,  9,  0,  9,  3,  7,  3,  9, -1>>,  \* 117
  << 7,  8,  0,  7,  0,  6,  6,  0,  2, -1, -1, -1, -1, -1, -1, -1>>,  \* 118
  << 7,  3,  2,  6,  7,  2, -1, -1, -1, -1, -1, -1, -1, -1, -1, -1>>,  \* 119
  << 2,  3, 11, 10,  6,  8, 10,  8,  9,  8,  6,  7, -1, -1, -1, -1>>,  \* 120
  << 2,  0,  7,  2,  7, 11,  0,  9,  7,  6,  7, 10,  9, 10,  7, -1>>,  \* 121
  << 1,  8,  0,  1,  7,  8,  1, 10,  7,  6,  7, 10,  2,  3, 11, -1>>,  \* 122
  <<11,  2,  1, 11,  1,  7, 10,  6,  1,  6,  7,  1, -1, -1, -1, -1>>,  \* 123
  << 8,  9,  6,  8,  6,  7,  9,  1,  6, 11,  6,  3,  1,  3,  6, -1>>,  \* 124
  << 0,  9,  1, 11,  6,  7, -1, -1, -1, -1, -1, -1, -1, -1, -1, -1>>,  \* 125
  << 7,  8,  0,  7,  0,  6,  3, 11,  0, 11,  6,  0, -1, -1, -1, -1>>,  \* 126
  << 7, 11,  6, -1, -1, -1, -1, -1, -1, -1, -1, -1, -1, -1, -1, -1>>,  \* 127
  << 7,  6, 11, -1, -1, -1, -1, -1, -1, -1, -1, -1, -1, -1, -1, -1>>,  \* 128
  << 3,  0,  8, 11,  7,  6, -1, -1, -1, -1, -1, -1, -1, -1, -1, -1>>,  \* 129
  << 0,  1,  9, 11,  7,  6, -1, -1, -1, -1, -1, -1, -1, -1, -1, -1>>,  \* 130
  << 8,  1,  9,  8,  3,  1, 11,  7,  6, -1, -1, -1, -1, -1, -1, -1>>,  \* 131
  <<10,  1,  2,  6, 11,  7, -1, -1, -1, -1, -1, -1, -1, -1, -1, -1>>,  \* 132
  << 1,  2, 10,  3,  0,  8,  6, 11,  7, -1, -1, -1, -1, -1, -1, -1>>,  \* 133
  << 2,  9,  0,  2, 10,  9,  6, 11,  7, -1, -1, -1, -1, -1, -1, -1>>,  \* 134
  << 6, 11,  7,  2, 10,  3, 10,  8,  3, 10,  9,  8, -1, -1, -1, -1>>,  \* 135
  << 7,  2,  3,  6,  2,  7, -1, -1, -1, -1, -1, -1, -1, -1, -1, -1>>,  \* 136
  << 7,  0,  8,  7,  6,  0,  6,  2,  0, -1, -1, -1, -1, -1, -1, -1>>,  \* 137
  << 2,  7,  6,  2,  3,  7,  0,  1,  9, -1, -1, -1, -1, -1, -1, -1>>,  \* 138
  << 1,  6,  2,  1,  8,  6,  1,  9,  8,  8,  7,  6, -1, -1, -1, -1>>,  \* 139
  <<10,  7,  6, 10,  1,  7,  1,  3,  7, -1, -1, -1, -1, -1, -1, -1>>,  \* 140
  <<10,  7,  6,  1,  7, 10,  1,  8,  7,  1,  0,  8, -1, -1, -1, -1>>,  \* 141
  << 0,  3,  7,  0,  7, 10,  0, 10,  9,  6, 10,  7, -1, -1, -1, -1>>,  \* 142
  << 7,  6, 10,  7, 10,  8,  8, 10,  9, -1, -1, -1, -1, -1, -1, -1>>,  \* 143
  << 6,  8,  4, 11,  8,  6, -1, -1, -1, -1, -1, -1, -1, -1, -1, -1>>,  \* 144
  << 3,  6, 11,  3,  0,  6,  0,  4,  6, -1, -1, -1, -1, -1, -1, -1>>,  \* 145
  << 8,  6, 11,  8,  4,  6,  9,  0,  1, -1, -1, -1, -1, -1, -1, -1>>,  \* 146
  << 9,  4,  6,  9,  6,  3,  9,  3,  1, 11,  3,  6, -1, -1, -1, -1>>,  \* 147
  << 6,  8,  4,  6, 11,  8,  2, 10,  1, -1, -1, -1, -1, -1, -1, -1>>,  \* 148
  << 1,  2, 10,  3,  0, 11,  0,  6, 11,  0,  4,  6, -1, -1, -1, -1>>,  \* 149
  << 4, 11,  8,  4,  6, 11,  0,  2,  9,  2, 10,  9, -1, -1, -1, -1>>,  \* 150
  <<10,  9,  3, 10,  3,  2,  9,  4,  3, 11,  3,  6,  4,  6,  3, -1>>,  \* 151
  << 8,  2,  3,  8,  4,  2,  4,  6,  2, -1, -1, -1, -1, -1, -1, -1>>,  \* 152
  << 0,  4,  2,  4,  6,  2, -1, -1, -1, -1, -1, -1, -1, -1, -1, -1>>,  \* 153
  << 1,  9,  0,  2,  3,  4,  2,  4,  6,  4,  3,  8, -1, -1, -1, -1>>,  \* 154
  << 1,  9,  4,  1,  4,  2,  2,  4,  6, -1, -1, -1, -1, -1, -1, -1>>,  \* 155
  << 8,  1,  3,  8,  6,  1,  8,  4,  6,  6, 10,  1, -1, -1, -1, -1>>,  \* 156
  <<10,  1,  0, 10,  0,  6,  6,  0,  4, -1, -1, -1, -1, -1, -1, -1>>,  \* 157
  << 4,  6,  3,  4,  3,  8,  6, 10,  3,  0,  3,  9, 10,  9,  3, -1>>,  \* 158
  <<10,  9,  4,  6, 10,  4, -1, -1, -1, -1, -1, -1, -1, -1, -1, -1>>,  \* 159
  << 4,  9,  5,  7,  6, 11, -1, -1, -1, -1, -1, -1, -1, -1, -1, -1>>,  \* 160
  << 0,  8,  3,  4,  9,  5, 11,  7,  6, -1, -1, -1, -1, -1, -1, -1>>,  \* 161
  << 5,  0,  1,  5,  4,  0,  7,  6, 11, -1, -1, -1, -1, -1, -1, -1>>,  \* 162
  <<11,  7,  6,  8,  3,  4,  3,  5,  4,  3,  1,  5, -1, -1, -1, -1>>,  \* 163
  << 9,  5,  4, 10,  1,  2,  7,  6, 11, -1, -1, -1, -1, -1, -1, -1>>,  \* 164
  << 6, 11,  7,  1,  2, 10,  0,  8,  3,  4,  9,  5, -1, -1, -1, -1>>,  \* 165
  << 7,  6, 11,  5,  4, 10,  4,  2, 10,  4,  0,  2, -1, -1, -1, -1>>,  \* 166
  << 3,  4,  8,  3,  5,  4,  3,  2,  5, 10,  5,  2, 11,  7,  6, -1>>,  \* 167
  << 7,  2,  3,  7,  6,  2,  5,  4,  9, -1, -1, -1, -1, -1, -1, -1>>,  \* 168
  << 9,  5,  4,  0,  8,  6,  0,  6,  2,  6,  8,  7, -1, -1, -1, -1>>,  \* 169
  << 3,  6,  2,  3,  7,  6,  1,  5,  0,  5,  4,  0, -1, -1, -1, -1>>,  \* 170
  << 6,  2,  8,  6,  8,  7,  2,  1,  8,  4,  8,  5,  1,  5,  8, -1>>,  \* 171
  << 9,  5,  4, 10,  1,  6,  1,  7,  6,  1,  3,  7, -1, -1, -1, -1>>,  \* 172
  << 1,  6, 10,  1,  7,  6,  1,  0,  7,  8,  7,  0,  9,  5,  4, -1>>,  \* 173
  << 4,  0, 10,  4, 10,  5,  0,  3, 10,  6, 10,  7,  3,  7, 10, -1>>,  \* 174
  << 7,  6, 10,  7, 10,  8,  5,  4, 10,  4,  8, 10, -1, -1, -1, -1>>,  \* 175
  << 6,  9,  5,  6, 11,  9, 11,  8,  9, -1, -1, -1, -1, -1, -1, -1>>,  \* 176
  << 3,  6, 11,  0,  6,  3,  0,  5,  6,  0,  9,  5, -1, -1, -1, -1>>,  \* 177
  << 0, 11,  8,  0,  5, 11,  0,  1,  5,  5,  6, 11, -1, -1, -1, -1>>,  \* 178
  << 6, 11,  3,  6,  3,  5,  5,  3,  1, -1, -1, -1, -1, -1, -1, -1>>,  \* 179
  << 1,  2, 10,  9,  5, 11,  9, 11,  8, 11,  5,  6, -1, -1, -1, -1>>,  \* 180
  << 0, 11,  3,  0,  6, 11,  0,  9,  6,  5,  6,  9,  1,  2, 10, -1>>,  \* 181
  <<11,  8,  5, 11,  5,  6,  8,  0,  5, 10,  5,  2,  0,  2,  5, -1>>,  \* 182
  << 6, 11,  3,  6,  3,  5,  2, 10,  3, 10,  5,  3, -1, -1, -1, -1>>,  \* 183
  << 5,  8,  9,  5,  2,  8,  5,  6,  2,  3,  8,  2, -1, -1, -1, -1>>,  \* 184
  << 9,  5,  6,  9,  6,  0,  0,  6,  2, -1, -1, -1, -1, -1, -1, -1>>,  \* 185
  << 1,  5,  8,  1,  8,  0,  5,  6,  8,  3,  8,  2,  6,  2,  8, -1>>,  \* 186
  << 1,  5,  6,  2,  1,  6, -1, -1, -1, -1, -1, -1, -1, -1, -1, -1>>,  \* 187
  << 1,  3,  6,  1,  6, 10,  3,  8,  6,  5,  6,  9,  8,  9,  6, -1>>,  \* 188
  <<10,  1,  0, 10,  0,  6,  9,  5,  0,  5,  6,  0, -1, -1, -1, -1>>,  \* 189
  << 0,  3,  8,  5,  6, 10, -1, -1, -1, -1, -1, -1, -1, -1, -1, -1>>,  \* 190
  <<10,  5,  6, -1, -1, -1, -1, -1, -1, -1, -1, -1, -1, -1, -1, -1>>,  \* 191
  <<11,  5, 10,  7,  5, 11, -1, -1, -1, -1, -1, -1, -1, -1, -1, -1>>,  \* 192
  <<11,  5, 10, 11,  7,  5,  8,  3,  0, -1, -1, -1, -1, -1, -1, -1>>,  \* 193
  << 5, 11,  7,  5, 10, 11,  1,  9,  0, -1, -1, -1, -1, -1, -1, -1>>,  \* 194
  <<10,  7,  5, 10, 11,  7,  9,  8,  1,  8,  3,  1, -1, -1, -1, -1>>,  \* 195
  <<11,  1,  2, 11,  7,  1,  7,  5,  1, -1, -1, -1, -1, -1, -1, -1>>,  \* 196
  << 0,  8,  3,  1,  2,  7,  1,  7,  5,  7,  2, 11, -1, -1, -1, -1>>,  \* 197
  << 9,  7,  5,  9,  2,  7,  9,  0,  2,  2, 11,  7, -1, -1, -1, -1>>,  \* 198
  << 7,  5,  2,  7,  2, 11,  5,  9,  2,  3,  2,  8,  9,  8,  2, -1>>,  \* 199
  << 2,  5, 10,  2,  3,  5,  3,  7,  5, -1, -1, -1, -1, -1, -1, -1>>,  \* 200
  << 8,  2,  0,  8,  5,  2,  8,  7,  5, 10,  2,  5, -1, -1, -1, -1>>,  \* 201
  << 9,  0,  1,  5, 10,  3,  5,  3,  7,  3, 10,  2, -1, -1, -1, -1>>,  \* 202
  << 9,  8,  2,  9,  2,  1,  8,  7,  2, 10,  2,  5,  7,  5,  2, -1>>,  \* 203
  << 1,  3,  5,  3,  7,  5, -1, -1, -1, -1, -1, -1, -1, -1, -1, -1>>,  \* 204
  << 0,  8,  7,  0,  7,  1,  1,  7,  5, -1, -1, -1, -1, -1, -1, -1>>,  \* 205
  << 9,  0,  3,  9,  3,  5,  5,  3,  7, -1, -1, -1, -1, -1, -1, -1>>,  \* 206
  << 9,  8,  7,  5,  9,  7, -1, -1, -1, -1, -1, -1, -1, -1, -1, -1>>,  \* 207
  << 5,  8,  4,  5, 10,  8, 10, 11,  8, -1, -1, -1, -1, -1, -1, -1>>,  \* 208
  << 5,  0,  4,  5, 11,  0,  5, 10, 11, 11,  3,  0, -1, -1, -1, -1>>,  \* 209
  << 0,  1,  9,  8,  4, 10,  8, 10, 11, 10,  4,  5, -1, -1, -1, -1>>,  \* 210
  <<10, 11,  4, 10,  4,  5, 11,  3,  4,  9,  4,  1,  3,  1,  4, -1>>,  \* 211
  << 2,  5,  1,  2,  8,  5,  2, 11,  8,  4,  5,  8, -1, -1, -1, -1>>,  \* 212
  << 0,  4, 11,  0, 11,  3,  4,  5, 11,  2, 11,  1,  5,  1, 11, -1>>,  \* 213
  << 0,  2,  5,  0,  5,  9,  2, 11,  5,  4,  5,  8, 11,  8,  5, -1>>,  \* 214
  << 9,  4,  5,  2, 11,  3, -1, -1, -1, -1, -1, -1, -1, -1, -1, -1>>,  \* 215
  << 2,  5, 10,  3,  5,  2,  3,  4,  5,  3,  8,  4, -1, -1, -1, -1>>,  \* 216
  << 5, 10,  2,  5,  2,  4,  4,  2,  0, -1, -1, -1, -1, -1, -1, -1>>,  \* 217
  << 3, 10,  2,  3,  5, 10,  3,  8,  5,  4,  5,  8,  0,  1,  9, -1>>,  \* 218
  << 5, 10,  2,  5,  2,  4,  1,  9,  2,  9,  4,  2, -1, -1, -1, -1>>,  \* 219
  << 8,  4,  5,  8,  5,  3,  3,  5,  1, -1, -1, -1, -1, -1, -1, -1>>,  \* 220
  << 0,  4,  5,  1,  0,  5, -1, -1, -1, -1, -1, -1, -1, -1, -1, -1>>,  \* 221
  << 8,  4,  5,  8,  5,  3,  9,  0,  5,  0,  3,  5, -1, -1, -1, -1>>,  \* 222
  << 9,  4,  5, -1, -1, -1, -1, -1, -1, -1, -1, -1, -1, -1, -1, -1>>,  \* 223
  << 4, 11,  7,  4,  9, 11,  9, 10, 11, -1, -1, -1, -1, -1, -1, -1>>,  \* 224
  << 0,  8,  3,  4,  9,  7,  9, 11,  7,  9, 10, 11, -1, -1, -1, -1>>,  \* 225
  << 1, 10, 11,  1, 11,  4,  1,  4,  0,  7,  4, 11, -1, -1, -1, -1>>,  \* 226
  << 3,  1,  4,  3,  4,  8,  1, 10,  4,  7,  4, 11, 10, 11,  4, -1>>,  \* 227
  << 4, 11,  7,  9, 11,  4,  9,  2, 11,  9,  1,  2, -1, -1, -1, -1>>,  \* 228
  << 9,  7,  4,  9, 11,  7,  9,  1, 11,  2, 11,  1,  0,  8,  3, -1>>,  \* 229
  <<11,  7,  4, 11,  4,  2,  2,  4,  0, -1, -1, -1, -1, -1, -1, -1>>,  \* 230
  <<11,  7,  4, 11,  4,  2,  8,  3,  4,  3,  2,  4, -1, -1, -1, -1>>,  \* 231
  << 2,  9, 10,  2,  7,  9,  2,  3,  7,  7,  4,  9, -1, -1, -1, -1>>,  \* 232
  << 9, 10,  7,  9,  7,  4, 10,  2,  7,  8,  7,  0,  2,  0,  7, -1>>,  \* 233
  << 3,  7, 10,  3, 10,  2,  7,  4, 10,  1, 10,  0,  4,  0, 10, -1>>,  \* 234
  << 1, 10,  2,  8,  7,  4, -1, -1, -1, -1, -1, -1, -1, -1, -1, -1>>,  \* 235
  << 4,  9,  1,  4,  1,  7,  7,  1,  3, -1, -1, -1, -1, -1, -1, -1>>,  \* 236
  << 4,  9,  1,  4,  1,  7,  0,  8,  1,  8,  7,  1, -1, -1, -1, -1>>,  \* 237
  << 4,  0,  3,  7,  4,  3, -1, -1, -1, -1, -1, -1, -1, -1, -1, -1>>,  \* 238
  << 4,  8,  7, -1, -1, -1, -1, -1, -1, -1, -1, -1, -1, -1, -1, -1>>,  \* 239
  << 9, 10,  8, 10, 11,  8, -1, -1, -1, -1, -1, -1, -1, -1, -1, -1>>,  \* 240
  << 3,  0,  9,  3,  9, 11, 11,  9, 10, -1, -1, -1, -1, -1, -1, -1>>,  \* 241
  << 0,  1, 10,  0, 10,  8,  8, 10, 11, -1, -1, -1, -1, -1, -1, -1>>,  \* 242
  << 3,  1, 10, 11,  3, 10, -1, -1, -1, -1, -1, -1, -1, -1, -1, -1>>,  \* 243
  << 1,  2, 11,  1, 11,  9,  9, 11,  8, -1, -1, -1, -1, -1, -1, -1>>,  \* 244
  << 3,  0,  9,  3,  9, 11,  1,  2,  9,  2, 11,  9, -1, -1, -1, -1>>,  \* 245
  << 0,  2, 11,  8,  0, 11, -1, -1, -1, -1, -1, -1, -1, -1, -1, -1>>,  \* 246
  << 3,  2, 11, -1, -1, -1, -1, -1, -1, -1, -1, -1, -1, -1, -1, -1>>,  \* 247
  << 2,  3,  8,  2,  8, 10, 10,  8,  9, -1, -1, -1, -1, -1, -1, -1>>,  \* 248
  << 9, 10,  2,  0,  9,  2, -1, -1, -1, -1, -1, -1, -1, -1, -1, -1>>,  \* 249
  << 2,  3,  8,  2,  8, 10,  0,  1,  8,  1, 10,  8, -1, -1, -1, -1>>,  \* 250
  << 1, 10,  2, -1, -1, -1, -1, -1, -1, -1, -1, -1, -1, -1, -1, -1>>,  \* 251
  << 1,  3,  8,  9,  1,  8, -1, -1, -1, -1, -1, -1, -1, -1, -1, -1>>,  \* 252
  << 0,  9,  1, -1, -1, -1, -1, -1, -1, -1, -1, -1, -1, -1, -1, -1>>,  \* 253
  << 0,  3,  8, -1, -1, -1, -1, -1, -1, -1, -1, -1, -1, -1, -1, -1>>,  \* 254
  <<-1, -1, -1, -1, -1, -1, -1, -1, -1, -1, -1, -1, -1, -1, -1, -1>>  \* 255
  >>

\* The table with the last padding entry of row 61 overwritten.
\* The table with an edge written twice in the triangle of case 1 (corner 0
\* inside).
MARCHING_CUBES_TABLE_repeated_edge == [ClassicTable EXCEPT ![2][3] = 0]

\* The table with the row of case 254 (all corners but corner 0 inside) left
\* as padding.
MARCHING_CUBES_TABLE_blank_row ==
    [ClassicTable EXCEPT ![255] = [j \in 1..Len(ClassicTable[255]) |-> -1]]

MARCHING_CUBES_TABLE_typo == [ClassicTable EXCEPT ![62][16] = 0]

\* static MARCHING_CUBES_TABLE: [[i32; 16]; 256]
MARCHING_CUBES_TABLE == ClassicTable

\* Entry j (0-based) of a table row.
At(row, j) == row[j + 1]

\* The number of corner flags of a cube: the 8 of [bool; 8].
NumFlags == 8

\* The number of entries of a table row: the 16 of [i32; 16].
RowLen == 16

\* The end of the iterator's range (0..5).
IterRangeEnd == 5

\* A range that stops one triangle early.
IterRange_short == IterRangeEnd - 1

\* The end of the range as the iterator uses it.
IterRange == IterRangeEnd

\* 2^n
RECURSIVE Pow2(_)
Pow2(n) == IF n = 0 THEN 1 ELSE 2 * Pow2(n - 1)

\* x | b for a one-bit value b (bit as usize).
BitOr1(x, b) == IF x % 2 = 1 THEN x ELSE x + b

\* The loop with the shift applied after the bit is set.
FlagsStep_shift_after(idx, bit) == BitOr1(idx, IF bit THEN 1 ELSE 0) * 2

\* The body of the loop of flags_to_index: index = (index << 1) | bit
FlagsStep(idx, bit) == BitOr1(idx * 2, IF bit THEN 1 ELSE 0)

\* The loop of flags_to_index over flags.iter().rev(): k runs from 7 down to 0.
RECURSIVE FlagsLoopRev(_, _, _)
FlagsLoopRev(flags, k, idx) ==
    IF k < 0 THEN idx ELSE FlagsLoopRev(flags, k - 1, FlagsStep(idx, flags[k]))

\* The same loop without .rev(): k runs from 0 up to 7.
RECURSIVE FlagsLoopFwd(_, _, _)
FlagsLoopFwd(flags, k, idx) ==
    IF k >= NumFlags THEN idx ELSE FlagsLoopFwd(flags, k + 1, FlagsStep(idx, flags[k]))

\* flags_to_index with the flags taken most significant first.
flags_to_index_no_rev(flags) == FlagsLoopFwd(flags, 0, 0)

\* flags_to_index: the order of the bits is least to most significant.
flags_to_index(flags) == FlagsLoopRev(flags, NumFlags - 1, 0)

\* test_lut::index_to_flags: format!("{:08b}", index) gives the 8 binary digits,
\* most significant first, as b[0..7]; flag k is b[7 - k] == '1'.
Binary8(n) == [p \in 0..(NumFlags - 1) |-> (n \div Pow2(NumFlags - 1 - p)) % 2]

index_to_flags(n) ==
    LET b == Binary8(n) IN [k \in 0..(NumFlags - 1) |-> b[NumFlags - 1 - k] = 1]

None == <<>>

\* triangulation_to_triangle without the reversal of the triplet.
triangulation_to_triangle_raw_order(row, i) ==
    IF At(row, 3 * i) = -1
    THEN None
    ELSE <<At(row, 3 * i + 0), At(row, 3 * i + 1), At(row, 3 * i + 2)>>

\* triangulation_to_triangle: None for a padding triplet, otherwise Some of the
\* triplet in reversed order.
triangulation_to_triangle(row, i) ==
    IF At(row, 3 * i) = -1
    THEN None
    ELSE <<At(row, 3 * i + 2), At(row, 3 * i + 1), At(row, 3 * i + 0)>>

\* The cube description with the vertical edges 9 and 10 exchanged.
CubeEdges_swapped ==
    <<<<0, 1>>, <<1, 2>>, <<2, 3>>, <<3, 0>>, <<4, 5>>, <<5, 6>>, <<6, 7>>, <<7, 4>>,
      <<0, 4>>, <<2, 6>>, <<1, 5>>, <<3, 7>>>>

\* The cube description of the module documentation: edge e (0-based, read
\* through At) joins the two corners of entry e.  Edges 0..3 run around the
\* bottom face, 4..7 around the top face and 8..11 are the vertical edges.
CubeEdges ==
    <<<<0, 1>>, <<1, 2>>, <<2, 3>>, <<3, 0>>, <<4, 5>>, <<5, 6>>, <<6, 7>>, <<7, 4>>,
      <<0, 4>>, <<1, 5>>, <<2, 6>>, <<3, 7>>>>

-----------------------------------------------------------------------------
(* lib.rs, workspace.rs: the reconstruction entry points.                  *)
(* Lengths are whole multiples of one length unit; a point is a triple.    *)

\* Option: None is the empty sequence, Some(x) the sequence of x alone.
NoneV == <<>>
Some(x) == <<x>>
Unwrap(opt) == opt[1]

\* The largest value of the Index kind I.
IndexMax == 8

\* The largest number of particles of one call.
MaxParticles == 1

Axes == 1..3

\* The particle positions the calls draw from.
Positions == {<<0, 0, 0>>, <<2, 1, 0>>}

RECURSIVE SeqsUpTo(_, _)
SeqsUpTo(S, n) ==
    IF n = 0 THEN {<<>>}
    ELSE LET shorter == SeqsUpTo(S, n - 1)
         IN  shorter \cup {Append(sq, x) : sq \in {q \in shorter : Len(q) = n - 1}, x \in S}

ParticleLists == SeqsUpTo(Positions, MaxParticles)

Min2(a, b) == IF a <= b THEN a ELSE b
Max2(a, b) == IF a >= b THEN a ELSE b

\* AxisAlignedBoundingBox3d::from_points / from_points_par: the smallest box
\* enclosing the points; the zero box for no points.
RECURSIVE FoldBox(_, _, _)
FoldBox(points, n, box) ==
    IF n > Len(points) THEN box
    ELSE FoldBox(points, n + 1,
                 [max |-> [a \in Axes |-> Max2(box.max[a], points[n][a])],
                  min |-> [a \in Axes |-> Min2(box.min[a], points[n][a])]])

AabbFromPoints(points) ==
    IF Len(points) = 0
    THEN [max |-> <<0, 0, 0>>, min |-> <<0, 0, 0>>]
    ELSE FoldBox(points, 2, [max |-> points[1], min |-> points[1]])

\* AxisAlignedBoundingBox::grow_uniformly: the box moved outwards by margin on
\* every side.
GrowUniformly(box, margin) ==
    [max |-> [a \in Axes |-> box.max[a] + margin],
     min |-> [a \in Axes |-> box.min[a] - margin]]

\* AxisAlignedBoundingBox::contains
AabbContains(box, p) == \A a \in Axes : box.min[a] <= p[a] /\ p[a] <= box.max[a]

\* The diagonal of a cube of the grid, rounded up to the length unit.
CubeDiagonal(cube_size) ==
    CHOOSE d \in 0..(2 * cube_size) :
        /\ d * d >= 3 * cube_size * cube_size
        /\ \A e \in 0..(2 * cube_size) : e * e >= 3 * cube_size * cube_size => d <= e

\* density_map::compute_kernel_evaluation_radius(..).kernel_evaluation_radius:
\* the compact support radius plus the diagonal of a cube.
KernelEvaluationRadius(kernel_radius, cube_size) ==
    kernel_radius + CubeDiagonal(cube_size)

\* UniformGrid::new_zero
ZeroGrid ==
    [cube_size |-> 0, n_cells |-> <<0, 0, 0>>, n_points |-> <<0, 0, 0>>,
     origin |-> <<0, 0, 0>>]

CeilDiv(a, b) == (a + b - 1) \div b

\* UniformGrid::from_aabb: cells per axis ceil(extent / cube_size), points per
\* axis cells + 1; InvalidDomain for a non-positive extent, IndexOverflow when the
\* point count does not fit the Index kind.
UniformGridFromAabb(box, cube_size) ==
    LET extent == [a \in Axes |-> box.max[a] - box.min[a]]
        cells  == [a \in Axes |-> CeilDiv(extent[a], cube_size)]
    IN  IF \E a \in Axes : extent[a] <= 0
        THEN [error |-> "InvalidDomain", ok |-> FALSE]
        ELSE IF \E a \in Axes : cells[a] + 1 > IndexMax
        THEN [error |-> "IndexOverflow", ok |-> FALSE]
        ELSE [ok |-> TRUE,
              grid |-> [cube_size |-> cube_size, n_cells |-> cells,
                        n_points |-> [a \in Axes |-> cells[a] + 1],
                        origin |-> box.min]]

\* UniformGrid::aabb: the box the grid covers.
GridAabb(grid) ==
    [max |-> [a \in Axes |-> grid.origin[a] + grid.n_cells[a] * grid.cube_size],
     min |-> grid.origin]

\* The margin grid_for_reconstruction adds around the box of the particles: first
\* particle_radius, then the kernel evaluation radius.
ComputedDomain(particle_positions, particle_radius, kernel_radius, cube_size) ==
    GrowUniformly(GrowUniformly(AabbFromPoints(particle_positions), particle_radius),
                  KernelEvaluationRadius(kernel_radius, cube_size))

\* grid_for_reconstruction: the grid over the given domain_aabb, or over the
\* grown box of the particles when none is given; the error of the grid
\* construction converted to ReconstructionError::GridConstructionError.
grid_for_reconstruction(particle_positions, particle_radius, kernel_radius, cube_size, domain_aabb, enable_multi_threading) ==
    LET domain == IF domain_aabb # NoneV
                  THEN Unwrap(domain_aabb)
                  ELSE ComputedDomain(particle_positions, particle_radius,
                                      kernel_radius, cube_size)
        made == UniformGridFromAabb(domain, cube_size)
    IN  IF made.ok
        THEN made
        ELSE [error |-> <<"GridConstructionError", made.error>>, ok |-> FALSE]

\* The threads that call into the library: reconstructions on one handle follow
\* one another (the handle is borrowed mutably), here all from one thread.
Threads == {1}

\* TriMesh3d::default
EmptyMesh == [triangles |-> <<>>, vertices |-> <<>>]

\* TriMesh3d::clear: both vectors emptied.
TriMesh3d_clear(mesh) == EmptyMesh

\* Appending a patch to a mesh: the vertices are concatenated and the vertex
\* indices of the patch's triangles are shifted by the vertices already there.
MeshAppend(mesh, patch) ==
    LET off == Len(mesh.vertices)
    IN  [triangles |-> mesh.triangles \o
                         [n \in 1..Len(patch.triangles) |->
                            [c \in 1..3 |-> patch.triangles[n][c] + off]],
         vertices  |-> mesh.vertices \o patch.vertices]

\* The patch one particle contributes to the surface: a triangle on three vertices
\* of its own, when the particle lies in the domain of the grid.
ParticlePatch(grid, p) ==
    IF AabbContains(GridAabb(grid), p)
    THEN [triangles |-> << <<0, 1, 2>> >>, vertices |-> << <<p, 0>>, <<p, 1>>, <<p, 2>> >>]
    ELSE EmptyMesh

\* reconstruct_single_surface_append: the surface of the given particles over the
\* grid, appended to the mesh passed in (particle by particle).
RECURSIVE AppendSurface(_, _, _, _)
AppendSurface(mesh, grid, particle_positions, n) ==
    IF n > Len(particle_positions) THEN mesh
    ELSE AppendSurface(MeshAppend(mesh, ParticlePatch(grid, particle_positions[n])),
                       grid, particle_positions, n + 1)

reconstruct_single_surface_append(grid, particle_positions, parameters, mesh) ==
    AppendSurface(mesh, grid, particle_positions, 1)

\* A Vec by its length and its capacity: Vec::with_capacity(capacity), the
\* empty Vec of Default::default(), and a push, which grows a full Vec.
Vec_with_capacity(capacity) == [capacity |-> capacity, len |-> 0]
Vec_default == [capacity |-> 0, len |-> 0]
Vec_push(v) ==
    [capacity |-> IF v.len + 1 > v.capacity THEN v.len + 1 ELSE v.capacity,
     len |-> v.len + 1]

\* new_map().into(): a density map without entries.
EmptyDensityMap == <<>>

\* LocalReconstructionWorkspace::with_capacity
LocalWorkspace_with_capacity(capacity) ==
    [particle_positions      |-> Vec_with_capacity(capacity),
     mesh                    |-> EmptyMesh,
     density_map             |-> EmptyDensityMap,
     particle_densities      |-> Vec_with_capacity(capacity),
     particle_neighbor_lists |-> Vec_with_capacity(capacity)]

\* LocalReconstructionWorkspace::new, which is its Default
LocalReconstructionWorkspace_new ==
    [particle_positions      |-> Vec_default,
     mesh                    |-> EmptyMesh,
     density_map             |-> EmptyDensityMap,
     particle_densities      |-> Vec_default,
     particle_neighbor_lists |-> Vec_default]

\* A workspace without global densities and without a local workspace for any
\* of the given threads.
WorkspaceOver(threads) ==
    [global_densities |-> <<>>, local_workspaces |-> [t \in threads |-> NoneV]]

\* ReconstructionWorkspace::default: no global densities, no thread local
\* workspaces.
ReconstructionWorkspace_default == WorkspaceOver(Threads)

\* A ThreadLocal with one slot that every thread is given.
SlotOf_shared(t) == 1

\* ThreadLocal<RefCell<..>>: the slot get_or and get_or_default look at is the
\* slot of the calling thread.
SlotOf(t) == t

\* get_local_with_capacity that makes a new local workspace on every call.
get_local_with_capacity_always_new(workspace, t, capacity) ==
    [workspace EXCEPT
        !.local_workspaces[SlotOf(t)] = Some(LocalWorkspace_with_capacity(capacity))]

\* ReconstructionWorkspace::get_local_with_capacity on thread t: the thread's
\* local workspace, made with the given capacity if the thread has none yet.
get_local_with_capacity(workspace, t, capacity) ==
    IF workspace.local_workspaces[SlotOf(t)] # NoneV
    THEN workspace
    ELSE [workspace EXCEPT
            !.local_workspaces[SlotOf(t)] = Some(LocalWorkspace_with_capacity(capacity))]

\* ReconstructionWorkspace::get_local on thread t: the thread's local
\* workspace, the default one if the thread has none yet.
get_local(workspace, t) ==
    IF workspace.local_workspaces[SlotOf(t)] # NoneV
    THEN workspace
    ELSE [workspace EXCEPT
            !.local_workspaces[SlotOf(t)] = Some(LocalReconstructionWorkspace_new)]

\* A Clone of ReconstructionWorkspace that copies the buffers.
ReconstructionWorkspace_clone_deep(self) == self

\* impl Clone for ReconstructionWorkspace: "Returns a new default workspace
\* without any allocated memory".
ReconstructionWorkspace_clone(self) == ReconstructionWorkspace_default

\* #[derive(Clone)] of SurfaceReconstruction: every field is cloned.
SurfaceReconstruction_clone(self) ==
    [grid        |-> self.grid,
     mesh        |-> self.mesh,
     density_map |-> self.density_map,
     workspace   |-> ReconstructionWorkspace_clone(self.workspace),
     octree      |-> self.octree]

\* SurfaceReconstruction::default
SurfaceReconstruction_default ==
    [grid        |-> ZeroGrid,
     mesh        |-> EmptyMesh,
     density_map |-> NoneV,
     workspace   |-> ReconstructionWorkspace_default,
     octree      |-> NoneV]

\* The octree of a decomposed reconstruction: one leaf per particle, in
\* particle order.
OctreeOf(particle_positions) ==
    [leaves |-> [n \in 1..Len(particle_positions) |-> <<n>>]]

\* The particles of a leaf.
LeafParticles(particle_positions, leaf) ==
    [m \in 1..Len(leaf) |-> particle_positions[leaf[m]]]

\* The sub-meshes of the leaves appended to the mesh, in ascending leaf order.
RECURSIVE AppendLeaves(_, _, _, _, _, _)
AppendLeaves(mesh, grid, particle_positions, parameters, leaves, n) ==
    IF n > Len(leaves) THEN mesh
    ELSE AppendLeaves(
            reconstruct_single_surface_append(
                grid, LeafParticles(particle_positions, leaves[n]), parameters, mesh),
            grid, particle_positions, parameters, leaves, n + 1)

\* The outcomes of setting up the octree-based reconstruction in a call; a call
\* without spatial_decomposition does not reach the setup.
SetupOutcomes(parameters) ==
    IF parameters.spatial_decomposition = NoneV THEN {"NotRun"} ELSE {"Ok", "Err"}

\* SurfaceReconstructionOctreeVisitor::new: the visitor with the octree of the
\* particles, or no visitor when the setup fails.
SurfaceReconstructionOctreeVisitor_new(particle_positions, parameters, surface, setup) ==
    IF setup = "Ok" THEN Some([octree |-> OctreeOf(particle_positions)]) ELSE NoneV

\* .unwrap() of a failed value: the thread panics and unwinds out of the call.
UnwrapPanic == [error |-> <<"panic", "called unwrap() on a failed value">>, kind |-> "Panic"]

\* SurfaceReconstructionOctreeVisitor::run: the octree is kept in the handle,
\* every leaf is reconstructed on its own and the sub-meshes are put into the
\* mesh of the handle.
OctreeVisitorRun(surface, particle_positions, parameters) ==
    LET octree == OctreeOf(particle_positions)
    IN  [surface EXCEPT
            !.octree = Some(octree),
            !.mesh = AppendLeaves(surface.mesh, surface.grid, particle_positions,
                                  parameters, octree.leaves, 1)]

\* The handle that keeps its old mesh.
ClearExistingMesh_skipped(mesh) == mesh

\* reconstruct_surface_inplace, "Clear the existing mesh": output_surface.mesh.clear()
ClearExistingMesh(mesh) == TriMesh3d_clear(mesh)

\* reconstruct_surface_inplace, "Clear the current mesh, as reconstruction will be
\* appended to output": output_surface.mesh.clear()
ClearCurrentMesh(mesh) == TriMesh3d_clear(mesh)

\* The grid assigned before the error is looked at.
PropagateGridError_after_assign(surface, error) ==
    [surface |-> [surface EXCEPT !.grid = ZeroGrid],
     result  |-> [error |-> error, kind |-> "Err"]]

\* The ? after grid_for_reconstruction(..): the function returns the error and
\* output_surface.grid is not assigned.
PropagateGridError(surface, error) ==
    [surface |-> surface, result |-> [error |-> error, kind |-> "Err"]]

\* The result Ok(()).
OkUnit == [error |-> NoneV, kind |-> "Ok"]

\* The density map of a reconstruction: the positions that carry density.
DensityMapOf(particle_positions) ==
    {particle_positions[n] : n \in 1..Len(particle_positions)}

\* The non-decomposed branch with the density map it used kept in the handle.
GlobalReconstruction_retains_density_map(surface, particle_positions, parameters, t) ==
    LET ws == get_local_with_capacity(surface.workspace, t, Len(particle_positions))
        cleared == ClearCurrentMesh(surface.mesh)
    IN  [surface EXCEPT
            !.workspace = ws,
            !.mesh = reconstruct_single_surface_append(
                         surface.grid, particle_positions, parameters, cleared),
            !.density_map = Some(DensityMapOf(particle_positions))]

\* The non-decomposed branch of reconstruct_surface_inplace on thread t.
GlobalReconstruction(surface, particle_positions, parameters, t) ==
    LET ws == get_local_with_capacity(surface.workspace, t, Len(particle_positions))
        cleared == ClearCurrentMesh(surface.mesh)
    IN  [surface EXCEPT
            !.workspace = ws,
            !.mesh = reconstruct_single_surface_append(
                         surface.grid, particle_positions, parameters, cleared),
            !.density_map = NoneV]

\* reconstruct_surface_inplace called on thread t: the handle after the call and
\* the value returned.
reconstruct_surface_inplace(particle_positions, parameters, surface, t, setup) ==
    LET cleared == [surface EXCEPT !.mesh = ClearExistingMesh(surface.mesh)]
        made == grid_for_reconstruction(
                    particle_positions, parameters.particle_radius,
                    parameters.kernel_radius, parameters.cube_size,
                    parameters.domain_aabb, parameters.enable_multi_threading)
    IN  IF ~made.ok
        THEN PropagateGridError(cleared, made.error)
        ELSE LET with_grid == [cleared EXCEPT !.grid = made.grid]
                 visitor == SurfaceReconstructionOctreeVisitor_new(
                                particle_positions, parameters, with_grid, setup)
             IN  IF parameters.spatial_decomposition # NoneV
                 THEN IF visitor = NoneV
                      THEN [surface |-> with_grid, result |-> UnwrapPanic]
                      ELSE [surface |-> OctreeVisitorRun(with_grid, particle_positions,
                                                         parameters),
                            result |-> OkUnit]
                 ELSE [surface |-> GlobalReconstruction(with_grid, particle_positions,
                                                        parameters, t),
                       result |-> OkUnit]

\* Whether a call got as far as the setup of the octree-based reconstruction:
\* "NotRun", or the outcome of the setup.
SetupOfCall(parameters, result, setup) ==
    IF result.kind # "Err" THEN setup ELSE "NotRun"

\* reconstruct_surface called on thread t: Ok with the new handle, or the error
\* alone.
reconstruct_surface(particle_positions, parameters, t, setup) ==
    reconstruct_surface_inplace(particle_positions, parameters,
                                SurfaceReconstruction_default, t, setup)

\* A domain_aabb, and one with no extent along the second axis.
DomainBox == [max |-> <<2, 2, 2>>, min |-> <<0, 0, 0>>]
FlatDomainBox == [max |-> <<2, 0, 2>>, min |-> <<0, 0, 0>>]

\* A spatial decomposition with stitching switched on or off.
Decomposition(stitching) ==
    [enable_stitching |-> stitching,
     ghost_particle_safety_factor |-> NoneV,
     subdivision_criterion |-> "MaxParticleCount"]

\* Parameters of a global, single threaded reconstruction over the box of the
\* particles.
BaseParameters ==
    [cube_size               |-> 2,
     kernel_radius           |-> 1,
     particle_radius         |-> 1,
     domain_aabb             |-> NoneV,
     enable_multi_threading  |-> FALSE,
     spatial_decomposition   |-> NoneV,
     iso_surface_threshold   |-> 1,
     rest_density            |-> 1,
     splash_detection_radius |-> NoneV]

\* The Parameters a call may pass: with and without a domain, multi threading
\* and decomposition, and with a domain and a kernel radius whose grid cannot be built.
ParameterChoices ==
    {BaseParameters,
     [BaseParameters EXCEPT !.enable_multi_threading = TRUE, !.kernel_radius = 3],
     [BaseParameters EXCEPT !.domain_aabb = Some(DomainBox)],
     [BaseParameters EXCEPT !.domain_aabb = Some(FlatDomainBox),
                            !.enable_multi_threading = TRUE],
     [BaseParameters EXCEPT !.spatial_decomposition = Some(Decomposition(FALSE))],
     [BaseParameters EXCEPT !.spatial_decomposition = Some(Decomposition(TRUE)),
                            !.enable_multi_threading = TRUE],
     [BaseParameters EXCEPT !.spatial_decomposition = Some(Decomposition(FALSE)),
                            !.domain_aabb = Some(DomainBox)],
     [BaseParameters EXCEPT !.spatial_decomposition = Some(Decomposition(TRUE)),
                            !.domain_aabb = Some(FlatDomainBox)]}

NoCall == [fn |-> "none"]
NoReturn == [kind |-> "none"]

\* The lookup variables of a reconstruction run: an idle lookup.
IdleLut ==
    /\ case = 0
    /\ vertices_inside = index_to_flags(0)
    /\ lut_pc = "call"
    /\ index = 0
    /\ triangulation = <<>>
    /\ tri_i = 0
    /\ yielded = <<>>

\* The thread pool variables before any call of initialize_thread_pool.
IdlePool ==
    /\ pool = NoneV
    /\ pool_log = <<>>

\* The handle variables when no reconstruction is called.
IdleRecon ==
    /\ output_surface = SurfaceReconstruction_default
    /\ call = NoCall
    /\ ret = NoReturn
    /\ cloned = NoneV

\* A call that has not returned yet.
Pending == <<>>

\* The conversion variables when no Parameters are converted.
IdleConv ==
    /\ conv_in = NoneV
    /\ conv_out = Pending

\* No cube is triangulated.
IdleMono ==
    /\ mono_in = NoneV
    /\ mono_out = Pending

\* No VTK data set is loaded.
IdleVtk ==
    /\ vtk_in = NoneV
    /\ vtk_out = Pending

\* No grid index is looked up.
IdleGrid ==
    /\ grid_in = NoneV
    /\ grid_out = Pending

\* No thread calls into a shared workspace.
IdleWs ==
    /\ shared_workspace = NoneV
    /\ ws_pc = NoneV
    /\ ws_arg = NoneV
    /\ ws_ref = NoneV
    /\ ws_first = NoneV
    /\ ws_borrow = NoneV

InitRecon ==
    /\ IdleLut
    /\ IdlePool
    /\ IdleConv
    /\ IdleMono
    /\ IdleVtk
    /\ IdleGrid
    /\ IdleWs
    /\ output_surface = SurfaceReconstruction_default
    /\ call = NoCall
    /\ ret = NoReturn
    /\ cloned = NoneV

\* The caller is running: no call has panicked and unwound through it.
CallerRuns == ret.kind # "Panic"

\* A call of reconstruct_surface_inplace on the caller's handle.
reconstruct_surface_inplace_call ==
    \E particle_positions \in ParticleLists, parameters \in ParameterChoices,
       t \in Threads :
        \E setup \in SetupOutcomes(parameters) :
        \E r \in {reconstruct_surface_inplace(particle_positions, parameters,
                                               output_surface, t, setup)} :
            /\ CallerRuns
            /\ output_surface' = r.surface
            /\ call' = [particle_positions |-> particle_positions,
                        parameters |-> parameters,
                        fn |-> "reconstruct_surface_inplace",
                        octree_setup |-> SetupOfCall(parameters, r.result, setup)]
            /\ ret' = [error |-> r.result.error, surface |-> FALSE,
                       kind |-> r.result.kind]
            /\ cloned' = NoneV
            /\ UNCHANGED exceptRecon

\* A call of reconstruct_surface: on Ok the caller takes the returned handle as
\* its handle, on Err it gets the error and nothing else.
reconstruct_surface_call ==
    \E particle_positions \in ParticleLists, parameters \in ParameterChoices,
       t \in Threads :
        \E setup \in SetupOutcomes(parameters) :
        \E r \in {reconstruct_surface(particle_positions, parameters, t, setup)} :
            /\ CallerRuns
            /\ output_surface' = IF r.result.kind = "Ok" THEN r.surface
                                 ELSE output_surface
            /\ call' = [particle_positions |-> particle_positions,
                        parameters |-> parameters,
                        fn |-> "reconstruct_surface",
                        octree_setup |-> SetupOfCall(parameters, r.result, setup)]
            /\ ret' = [error |-> r.result.error, surface |-> (r.result.kind = "Ok"),
                       kind |-> r.result.kind]
            /\ cloned' = NoneV
            /\ UNCHANGED exceptRecon

\* output_surface.clone(): the caller keeps the clone until its next
\* reconstruction call; the handle is borrowed immutably.
clone_call ==
    /\ CallerRuns
    /\ cloned = NoneV
    /\ cloned' = Some(SurfaceReconstruction_clone(output_surface))
    /\ UNCHANGED <<output_surface, call, ret, exceptRecon>>

NextRecon ==
    \/ reconstruct_surface_inplace_call
    \/ reconstruct_surface_call
    \/ clone_call

SpecRecon == InitRecon /\ [][NextRecon]_vars

-----------------------------------------------------------------------------
(* lib.rs: initialize_thread_pool and the process-wide thread pool.        *)

\* The largest number of calls of initialize_thread_pool in one run.
MaxPoolCalls == 4

\* The values of num_threads the calls draw from (0: let the pool choose).
NumThreadsChoices == {0, 1, 2}

\* rayon::ThreadPoolBuilder::new().num_threads(n).build_global(): "Initialization
\* of the global thread pool happens exactly once": an error when the pool is
\* initialized already, and an error without a pool when its threads cannot be
\* started; otherwise the pool is set up with the given size.
build_global(p, num_threads, can_spawn) ==
    IF p # NoneV
    THEN [pool |-> p, result |-> [error |-> <<"GlobalPoolAlreadyInitialized">>, kind |-> "Err"]]
    ELSE IF ~can_spawn
    THEN [pool |-> p, result |-> [error |-> <<"IOError">>, kind |-> "Err"]]
    ELSE [pool |-> Some(num_threads), result |-> OkUnit]

\* initialize_thread_pool that drops the error of build_global.
initialize_thread_pool_ignore_error(p, num_threads, can_spawn) ==
    [pool |-> build_global(p, num_threads, can_spawn).pool, result |-> OkUnit]

\* initialize_thread_pool: build_global()? and then Ok(()).
initialize_thread_pool(p, num_threads, can_spawn) ==
    LET built == build_global(p, num_threads, can_spawn)
    IN  IF built.result.kind = "Err"
        THEN [pool |-> built.pool, result |-> built.result]
        ELSE [pool |-> built.pool, result |-> OkUnit]

InitPool ==
    /\ IdleLut
    /\ IdleRecon
    /\ IdlePool
    /\ IdleConv
    /\ IdleMono
    /\ IdleVtk
    /\ IdleGrid
    /\ IdleWs

\* A call of initialize_thread_pool; the log keeps the pool before and after it.
initialize_thread_pool_call ==
    /\ Len(pool_log) < MaxPoolCalls
    /\ \E num_threads \in NumThreadsChoices, can_spawn \in BOOLEAN :
        \E r \in {initialize_thread_pool(pool, num_threads, can_spawn)} :
            /\ pool' = r.pool
            /\ pool_log' = Append(pool_log,
                                  [result |-> r.result, num_threads |-> num_threads,
                                   after |-> r.pool, before |-> pool])
    /\ UNCHANGED exceptPool

NextPool == initialize_thread_pool_call

SpecPool == InitPool /\ [][NextPool]_vars

-----------------------------------------------------------------------------
(* lib.rs: Parameters::try_convert between two Real kinds.                 *)

\* The largest magnitude the target kind T can hold; the source kind R holds
\* every value drawn below.
TargetMax == 3

\* A value of the target kind.
InT(v) == [kind |-> "T", value |-> v]

\* Real::try_convert: the value in the target kind, None when it is out of the
\* target's range.
Real_try_convert(v) == IF v > TargetMax \/ v < -TargetMax THEN NoneV ELSE Some(InT(v))

\* The outcome of an expression that may leave the function through `?`.
Returned == [value |-> NoneV, early |-> TRUE]
Value(x) == [value |-> x, early |-> FALSE]

\* expr?: the value of Some, an early return of None otherwise.
Try(opt) == IF opt = NoneV THEN Returned ELSE Value(Unwrap(opt))

\* map_option!(opt, v => transformation(v)?): None stays None and the
\* transformation is not evaluated; Some(v) becomes Some(transformation(v)?).
\* `transformed` is the transformation applied to the value of the option.
map_option(some_optional, transformed) ==
    IF some_optional = NoneV
    THEN Value(NoneV)
    ELSE IF Try(transformed).early
         THEN Returned
         ELSE Value(Some(Try(transformed).value))

\* AxisAlignedBoundingBox3d::try_convert: both corners, coordinate by coordinate.
Aabb_try_convert(aabb) ==
    IF \E a \in Axes : Real_try_convert(aabb.min[a]) = NoneV \/ Real_try_convert(aabb.max[a]) = NoneV
    THEN NoneV
    ELSE Some([max |-> [a \in Axes |-> Unwrap(Real_try_convert(aabb.max[a]))],
               min |-> [a \in Axes |-> Unwrap(Real_try_convert(aabb.min[a]))]])

\* SpatialDecompositionParameters::try_convert.
SpatialDecompositionParameters_try_convert(self) ==
    LET ghost == map_option(self.ghost_particle_safety_factor,
                            Real_try_convert(Unwrap(self.ghost_particle_safety_factor)))
    IN  IF ghost.early
        THEN NoneV
        ELSE Some([enable_stitching |-> self.enable_stitching,
                   ghost_particle_safety_factor |-> ghost.value,
                   subdivision_criterion |-> self.subdivision_criterion])

\* The fields of Parameters::try_convert in the order they are evaluated.
ConvertedFields(self) ==
    [cube_size               |-> Try(Real_try_convert(self.cube_size)),
     kernel_radius           |-> Try(Real_try_convert(self.kernel_radius)),
     particle_radius         |-> Try(Real_try_convert(self.particle_radius)),
     domain_aabb             |-> map_option(self.domain_aabb,
                                           Aabb_try_convert(Unwrap(self.domain_aabb))),
     enable_multi_threading  |-> Value(self.enable_multi_threading),
     spatial_decomposition   |-> map_option(self.spatial_decomposition,
                                           SpatialDecompositionParameters_try_convert(
                                               Unwrap(self.spatial_decomposition))),
     iso_surface_threshold   |-> Try(Real_try_convert(self.iso_surface_threshold)),
     rest_density            |-> Try(Real_try_convert(self.rest_density)),
     splash_detection_radius |-> map_option(self.splash_detection_radius,
                                           Real_try_convert(Unwrap(self.splash_detection_radius)))]

\* Parameters::try_convert that maps the optional radius with Option::and_then:
\* a splash detection radius that does not fit is dropped.
Parameters_try_convert_drop_optional(self) ==
    LET f == ConvertedFields(self)
        g == [f EXCEPT !.splash_detection_radius =
                 IF @.early THEN Value(NoneV) ELSE @]
    IN  IF \E name \in DOMAIN g : g[name].early
        THEN NoneV
        ELSE Some([name \in DOMAIN g |-> g[name].value])

\* Parameters::try_convert: Some of the converted fields, None as soon as one `?`
\* returns.
Parameters_try_convert(self) ==
    LET f == ConvertedFields(self)
    IN  IF \E name \in DOMAIN f : f[name].early
        THEN NoneV
        ELSE Some([name \in DOMAIN f |-> f[name].value])

\* The values of kind R the fields draw from: one that fits T and one that
\* does not.
RealChoices == {1, TargetMax + 1}

\* Some(x) for the values of a set, and None.
OptionOf(S) == {NoneV} \cup {Some(x) : x \in S}

\* A domain whose corners fit T, and one with a corner that does not.
AabbChoices == {DomainBox, [DomainBox EXCEPT !.max[2] = TargetMax + 1]}

SubdivisionCriteria == {"MaxParticleCount", "MaxParticleCountAuto"}

DecompositionChoices ==
    [subdivision_criterion : SubdivisionCriteria,
     ghost_particle_safety_factor : OptionOf(RealChoices),
     enable_stitching : BOOLEAN]

\* The Parameters<R> the conversion is called on.
ConvertInputs ==
    [particle_radius         : RealChoices,
     rest_density            : RealChoices,
     kernel_radius           : RealChoices,
     splash_detection_radius : OptionOf(RealChoices),
     cube_size               : RealChoices,
     iso_surface_threshold   : RealChoices,
     domain_aabb             : OptionOf(AabbChoices),
     enable_multi_threading  : BOOLEAN,
     spatial_decomposition   : OptionOf(DecompositionChoices)]

InitConv ==
    /\ IdleLut
    /\ IdleRecon
    /\ IdlePool
    /\ IdleMono
    /\ IdleVtk
    /\ IdleGrid
    /\ IdleWs
    /\ conv_in \in ConvertInputs
    /\ conv_out = Pending

\* The call parameters.try_convert::<T>().
try_convert_call ==
    /\ conv_in # NoneV
    /\ conv_out = Pending
    /\ conv_out' = <<Parameters_try_convert(conv_in)>>
    /\ UNCHANGED <<conv_in, exceptConv>>

NextConv == try_convert_call

SpecConv == InitConv /\ [][NextConv]_vars

-----------------------------------------------------------------------------
(* marching_cubes_lut.rs: the triangles of one cube for two thresholds.     *)

\* The largest density a corner of the cube takes (in density units); 0 is the
\* density of a corner that is missing from the density map.
MaxDensity == 2

DensityChoices == 0..MaxDensity

\* The pairs t1 < t2 of thresholds that separate the densities.
ThresholdPairs == {p \in (0..(MaxDensity - 1)) \X (0..(MaxDensity - 1)) : p[1] < p[2]}

\* The corner flags of a cube: corner k is inside iff its density exceeds the
\* threshold.
CornerMask(densities, threshold) ==
    [k \in 0..(NumFlags - 1) |-> densities[k] > threshold]

\* marching_cubes_triangulation_iter as a whole: the row of the flags, mapped
\* over 0..5 by triangulation_to_triangle and flattened.
marching_cubes_triangulation_iter(flags) ==
    LET row == MARCHING_CUBES_TABLE[flags_to_index(flags) + 1]
        mapped == [i \in 1..IterRange |-> triangulation_to_triangle(row, i - 1)]
    IN  SelectSeq(mapped, LAMBDA t : t # None)

InitMono ==
    /\ IdleLut
    /\ IdleRecon
    /\ IdlePool
    /\ IdleConv
    /\ IdleVtk
    /\ IdleGrid
    /\ IdleWs
    /\ mono_in \in [densities : [0..(NumFlags - 1) -> DensityChoices],
                    thresholds : ThresholdPairs]
    /\ mono_out = Pending

\* The cube is triangulated once with each of the two thresholds.
triangulate_cube ==
    /\ mono_in # NoneV
    /\ mono_out = Pending
    /\ mono_out' =
         <<[high |-> marching_cubes_triangulation_iter(
                         CornerMask(mono_in.densities, mono_in.thresholds[2])),
            low  |-> marching_cubes_triangulation_iter(
                         CornerMask(mono_in.densities, mono_in.thresholds[1]))]>>
    /\ UNCHANGED <<mono_in, exceptMono>>

NextMono == triangulate_cube

SpecMono == InitMono /\ [][NextMono]_vars

-----------------------------------------------------------------------------
(* vtk_format.rs: loading a surface mesh from a VTK data piece.            *)

\* The longest legacy cell vertex array of a piece (two cells and a value left
\* over).
MaxCellVerts == 8

\* The values of the cell vertex array: each serves as a vertex count and as a
\* vertex index.
CellValues == {0, 3}

\* The point coordinate buffers of a piece: no point, one point, a length that
\* is not divisible by 3, a coordinate outside the output float type, two points.
CoordChoices ==
    {<<>>, <<1, 1, 1>>, <<1, 1, 1, 1>>, <<1, 1, TargetMax + 1>>, <<1, 1, 1, 2, 2, 2>>}

\* The IOBuffer variants of the points.
PointBufferKinds == {"F64", "F32", "U8"}

\* anyhow::Result: Ok(value) and Err(message).
VOk(v) == [error |-> "", kind |-> "Ok", value |-> Some(v)]
VErr(message) == [error |-> message, kind |-> "Err", value |-> NoneV]

\* VertexNumbers::XML{connectivity, offsets}.into_legacy(): for every cell its
\* number of vertices followed by its vertex indices.
RECURSIVE XmlCells(_, _, _)
XmlCells(connectivity, offsets, n) ==
    IF n = 0
    THEN <<>>
    ELSE LET first == IF n = 1 THEN 0 ELSE offsets[n - 1]
             last == offsets[n]
         IN  XmlCells(connectivity, offsets, n - 1)
                 \o <<last - first>>
                 \o [m \in 1..(last - first) |-> connectivity[first + m]]

into_legacy(xml) ==
    [vertices |-> XmlCells(xml.connectivity, xml.offsets, Len(xml.offsets)),
     num_cells |-> Len(xml.offsets)]

\* particles_from_coords that returns the points in front of the first
\* coordinate that cannot be converted.
particles_from_coords_partial(coords) ==
    IF Len(coords) % 3 # 0
    THEN VErr("Particle point buffer length is not divisible by 3")
    ELSE LET num_points == Len(coords) \div 3
             converts(p) == \A n \in (3 * p - 2)..(3 * p) : Real_try_convert(coords[n]) # NoneV
             kept == CHOOSE k \in 0..num_points :
                        /\ \A p \in 1..k : converts(p)
                        /\ k < num_points => ~converts(k + 1)
         IN  VOk([p \in 1..kept |->
                    <<Unwrap(Real_try_convert(coords[3 * p - 2])),
                      Unwrap(Real_try_convert(coords[3 * p - 1])),
                      Unwrap(Real_try_convert(coords[3 * p]))>>])

\* particles_from_coords: the coordinate triplets as points of the output float
\* type.
particles_from_coords(coords) ==
    IF Len(coords) % 3 # 0
    THEN VErr("Particle point buffer length is not divisible by 3")
    ELSE IF \E n \in 1..Len(coords) : Real_try_convert(coords[n]) = NoneV
    THEN VErr("Failed to convert coordinate from input to output float type, value out of range?")
    ELSE VOk([p \in 1..(Len(coords) \div 3) |->
                <<Unwrap(Real_try_convert(coords[3 * p - 2])),
                  Unwrap(Real_try_convert(coords[3 * p - 1])),
                  Unwrap(Real_try_convert(coords[3 * p]))>>])

\* The cell (0-based) of a cell vertex array, chunks_exact(4).
Chunk(cell_verts, cell_idx) ==
    [m \in 0..3 |-> cell_verts[4 * cell_idx + m + 1]]

\* let is_triangle = cell[0] == 0;
is_triangle(cell) == cell[0] = 0

\* The closure mapped over the cells: the triangle of a triangle cell, an
\* error for any other cell.
CellToTriangle(cell, cell_idx) ==
    IF is_triangle(cell)
    THEN VOk(<<cell[1], cell[2], cell[3]>>)
    ELSE VErr("Expected only triangle cells. Invalid number of vertex indices")

\* try_collect_with_capacity: the values in order, or the first error.
TryCollect(results) ==
    IF \E n \in 1..Len(results) : results[n].kind = "Err"
    THEN results[CHOOSE n \in 1..Len(results) :
                    /\ results[n].kind = "Err"
                    /\ \A m \in 1..(n - 1) : results[m].kind = "Ok"]
    ELSE VOk([n \in 1..Len(results) |-> Unwrap(results[n].value)])

\* The cell vertex array in legacy form.
LegacyCellVerts(cell_verts) ==
    IF cell_verts.format = "Legacy"
    THEN [vertices |-> cell_verts.vertices, num_cells |-> cell_verts.num_cells]
    ELSE into_legacy(cell_verts)

\* surface_mesh_from_unstructured_grid
surface_mesh_from_unstructured_grid(piece) ==
    LET vertices == IF piece.points.kind \in {"F64", "F32"}
                    THEN particles_from_coords(piece.points.coords)
                    ELSE VErr("Point coordinate IOBuffer does not contain f32 or f64 values")
        legacy == LegacyCellVerts(piece.cell_verts)
        cells == TryCollect([n \in 1..(Len(legacy.vertices) \div 4) |->
                                CellToTriangle(Chunk(legacy.vertices, n - 1), n - 1)])
    IN  IF vertices.kind = "Err"
        THEN vertices
        ELSE IF Len(legacy.vertices) % 4 # 0
        THEN VErr("Length of cell vertex array is invalid. Expected 4 values per cell")
        ELSE IF cells.kind = "Err"
        THEN cells
        ELSE VOk([triangles |-> Unwrap(cells.value), vertices |-> Unwrap(vertices.value)])

\* DataPiece::load_as_surface_mesh
load_as_surface_mesh(self) ==
    IF self.piece = "UnstructuredGrid"
    THEN surface_mesh_from_unstructured_grid(self)
    ELSE VErr("Unsupported piece type for loading surface mesh")

\* The cell vertex arrays of a piece in legacy form.
LegacyChoices ==
    {[vertices |-> v, num_cells |-> Len(v) \div 4, format |-> "Legacy"] :
        v \in SeqsUpTo(CellValues, MaxCellVerts)}

\* The cell vertex arrays of a piece in XML form: no cell, a triangle, a
\* triangle with a large index, a line.
XmlChoices ==
    {[connectivity |-> <<>>, offsets |-> <<>>, format |-> "XML"],
     [connectivity |-> <<0, 0, 0>>, offsets |-> <<3>>, format |-> "XML"],
     [connectivity |-> <<0, 3, 0>>, offsets |-> <<3>>, format |-> "XML"],
     [connectivity |-> <<0, 0>>, offsets |-> <<2>>, format |-> "XML"]}

\* The data pieces a file can hold.
PieceChoices ==
    [piece : {"UnstructuredGrid", "PolyData"},
     points : [kind : PointBufferKinds, coords : CoordChoices],
     cell_verts : LegacyChoices \cup XmlChoices]

InitVtk ==
    /\ IdleLut
    /\ IdleRecon
    /\ IdlePool
    /\ IdleConv
    /\ IdleMono
    /\ IdleGrid
    /\ IdleWs
    /\ vtk_in \in PieceChoices
    /\ vtk_out = Pending

\* The call piece.load_as_surface_mesh().
load_as_surface_mesh_call ==
    /\ vtk_in # NoneV
    /\ vtk_out = Pending
    /\ vtk_out' = <<load_as_surface_mesh(vtk_in)>>
    /\ UNCHANGED <<vtk_in, exceptVtk>>

NextVtk == load_as_surface_mesh_call

SpecVtk == InitVtk /\ [][NextVtk]_vars

-----------------------------------------------------------------------------
(* vtk_format.rs: particles_from_coords called on a coordinate buffer.     *)

\* The longest coordinate buffer: two points.
MaxCoords == 6

\* The coordinates of the input float type: two values of the output float
\* type's range and one outside of it.
CoordValues == {1, 2, TargetMax + 1}

\* The coordinate buffers.
CoordBuffers == SeqsUpTo(CoordValues, MaxCoords)

InitCoords ==
    /\ IdleLut
    /\ IdleRecon
    /\ IdlePool
    /\ IdleConv
    /\ IdleMono
    /\ IdleGrid
    /\ IdleWs
    /\ vtk_in \in CoordBuffers
    /\ vtk_out = Pending

\* The call particles_from_coords(&coords).
particles_from_coords_call ==
    /\ vtk_out = Pending
    /\ vtk_out' = <<particles_from_coords(vtk_in)>>
    /\ UNCHANGED <<vtk_in, exceptVtk>>

NextCoords == particles_from_coords_call

SpecCoords == InitCoords /\ [][NextCoords]_vars

-----------------------------------------------------------------------------
(* vtk_format.rs: loading named point attributes of a data piece.          *)

\* The most point attributes of a piece and the most requested names.
MaxAttributes == 2
MaxNames == 2

\* The names of attributes.
AttributeNames == {"a", "b"}

\* R::from_u32(val): every u32 drawn lies in the range of the Real kinds.
Real_from_u32(val) == Some(InT(val))

\* The closure io_buffer_to_attribute_data.
io_buffer_to_attribute_data(num_comp, io_buffer) ==
    IF num_comp = 1
    THEN IF io_buffer.kind = "U32"
         THEN VOk([kind |-> "ScalarReal",
                   values |-> [n \in 1..Len(io_buffer.coords) |->
                                  Unwrap(Real_from_u32(io_buffer.coords[n]))]])
         ELSE VErr(<<"Unsupported IOBuffer scalar type">>)
    ELSE IF num_comp = 3
    THEN IF io_buffer.kind \in {"F32", "F64"}
         THEN LET p == particles_from_coords(io_buffer.coords)
              IN  IF p.kind = "Ok"
                  THEN VOk([kind |-> "Vector3Real", values |-> Unwrap(p.value)])
                  ELSE VErr(<<p.error>>)
         ELSE VErr(<<"Unsupported IOBuffer vector type">>)
    ELSE VErr(<<"Unsupported number of components in VTK DataArray", num_comp>>)

\* .with_context(|| anyhow!("Attribute \"{}\"", field_name))
with_context(result, field_name) ==
    IF result.kind = "Err"
    THEN VErr(<<"Attribute", field_name>> \o result.error)
    ELSE result

\* MeshAttribute::new(name, data)
MeshAttribute_new(name, data) == [name |-> name, data |-> data]

\* DataPiece::point_attributes
point_attributes(self) == self.data.point

\* The arrays the two loops over the attributes look at, in the order in which
\* they look at them: a DataArray attribute itself, the members of a Field.
RECURSIVE ArraysVisited(_)
ArraysVisited(attributes) ==
    IF attributes = <<>>
    THEN <<>>
    ELSE (IF Head(attributes).variant = "DataArray"
          THEN <<Head(attributes).data_array>>
          ELSE Head(attributes).data_array) \o ArraysVisited(Tail(attributes))

\* The match the loops end at, looking from the back.
MatchOf_last(arrays, field_name) ==
    IF \E m \in 1..Len(arrays) : arrays[m].name = field_name
    THEN CHOOSE m \in 1..Len(arrays) :
            /\ arrays[m].name = field_name
            /\ \A k \in (m + 1)..Len(arrays) : arrays[k].name # field_name
    ELSE 0

\* The array at which the loops over the attributes stop for a name (continue
\* 'fields), 0 when they run to their end.
MatchOf(arrays, field_name) ==
    IF \E m \in 1..Len(arrays) : arrays[m].name = field_name
    THEN CHOOSE m \in 1..Len(arrays) :
            /\ arrays[m].name = field_name
            /\ \A k \in 1..(m - 1) : arrays[k].name # field_name
    ELSE 0

\* The loop 'fields from the names that are left.
RECURSIVE LoadFields(_, _, _)
LoadFields(self, names, mesh_attributes) ==
    IF names = <<>>
    THEN VOk(mesh_attributes)
    ELSE LET field_name == Head(names)
             arrays == ArraysVisited(point_attributes(self))
             m == MatchOf(arrays, field_name)
         IN  IF m = 0
             THEN VErr(<<"Attribute not found in VTK file", field_name>>)
             ELSE LET attribute_data ==
                          with_context(io_buffer_to_attribute_data(arrays[m].num_comp,
                                                                   arrays[m].data),
                                       field_name)
                  IN  IF attribute_data.kind = "Err"
                      THEN attribute_data
                      ELSE LoadFields(self, Tail(names),
                                      Append(mesh_attributes,
                                             MeshAttribute_new(field_name,
                                                               Unwrap(attribute_data.value))))

\* DataPiece::load_point_attributes
load_point_attributes(self, names) == LoadFields(self, names, <<>>)

\* The element layouts and buffers of an array: two u32 scalars, a vector of
\* f64, a vector of f32 with a coordinate outside the output float type, a
\* scalar of f64, a pair of f64, a vector of u32.
ArrayShapes ==
    {[num_comp |-> 1, data |-> [kind |-> "U32", coords |-> <<1, 2>>]],
     [num_comp |-> 1, data |-> [kind |-> "U32", coords |-> <<2>>]],
     [num_comp |-> 3, data |-> [kind |-> "F64", coords |-> <<1, 2, 1>>]],
     [num_comp |-> 3, data |-> [kind |-> "F32", coords |-> <<1, 1, TargetMax + 1>>]],
     [num_comp |-> 1, data |-> [kind |-> "F64", coords |-> <<1>>]],
     [num_comp |-> 2, data |-> [kind |-> "F64", coords |-> <<1, 1>>]],
     [num_comp |-> 3, data |-> [kind |-> "U32", coords |-> <<1, 1, 1>>]]}

\* A named array (DataArray, FieldArray).
Named(name, shape) == [name |-> name, num_comp |-> shape.num_comp, data |-> shape.data]

ArrayChoices == {Named(name, shape) : name \in AttributeNames, shape \in ArrayShapes}

\* The members of the Field attributes: none, one array, two arrays of one
\* name, two arrays of two names.
FieldChoices ==
    {<<>>,
     <<Named("a", [num_comp |-> 1, data |-> [kind |-> "U32", coords |-> <<2>>]])>>,
     <<Named("b", [num_comp |-> 2, data |-> [kind |-> "F64", coords |-> <<1, 1>>]]),
       Named("b", [num_comp |-> 1, data |-> [kind |-> "U32", coords |-> <<1, 2>>]])>>,
     <<Named("b", [num_comp |-> 3, data |-> [kind |-> "F64", coords |-> <<1, 2, 1>>]]),
       Named("a", [num_comp |-> 3, data |-> [kind |-> "F64", coords |-> <<2, 2, 2>>]])>>}

\* Attribute::DataArray and Attribute::Field.
AttributeChoices ==
    {[variant |-> "DataArray", data_array |-> a] : a \in ArrayChoices}
        \cup {[variant |-> "Field", data_array |-> f] : f \in FieldChoices}

\* The calls: a piece with its point attributes and the requested names.
AttributeCallChoices ==
    [self : [piece : {"UnstructuredGrid", "PolyData"},
             data : [point : SeqsUpTo(AttributeChoices, MaxAttributes)]],
     names : SeqsUpTo(AttributeNames, MaxNames)]

InitAttr ==
    /\ IdleLut
    /\ IdleRecon
    /\ IdlePool
    /\ IdleConv
    /\ IdleMono
    /\ IdleGrid
    /\ IdleWs
    /\ vtk_in \in AttributeCallChoices
    /\ vtk_out = Pending

\* The call piece.load_point_attributes(&names).
load_point_attributes_call ==
    /\ vtk_out = Pending
    /\ vtk_out' = <<load_point_attributes(vtk_in.self, vtk_in.names)>>
    /\ UNCHANGED <<vtk_in, exceptVtk>>

NextAttr == load_point_attributes_call

SpecAttr == InitAttr /\ [][NextAttr]_vars

-----------------------------------------------------------------------------
(* vtk_format.rs: particles written as a piece and loaded from it.         *)

\* The most particles written.
MaxPositions == 2

\* The float types R of the particles and the IOBuffer variant of a Vec<R>.
RealKinds == {"f32", "f64"}
IOBuffer_from(points, R) ==
    [kind |-> IF R = "f32" THEN "F32" ELSE "F64",
     coords |-> [n \in 1..Len(points) |-> points[n].value]]

\* let points = { ... points.extend(p.as_slice()) ... }
RECURSIVE ExtendAll(_)
ExtendAll(particles) ==
    IF particles = <<>>
    THEN <<>>
    ELSE Head(particles) \o ExtendAll(Tail(particles))

\* let vertices = { ... vertices.push(1); vertices.push(i as u32) ... }
RECURSIVE VertexCells(_)
VertexCells(n) ==
    IF n = 0
    THEN <<>>
    ELSE VertexCells(n - 1) \o <<1, n - 1>>

\* The conversion with the coordinates of every particle written back to
\* front.
UnstructuredGridPiece_from_reversed(particles, R) ==
    [points |-> IOBuffer_from(ExtendAll([n \in 1..Len(particles) |->
                                            <<particles[n][3], particles[n][2],
                                              particles[n][1]>>]), R),
     cells |-> [cell_verts |-> [vertices |-> VertexCells(Len(particles)),
                                num_cells |-> Len(particles),
                                format |-> "Legacy"],
                types |-> [n \in 1..Len(particles) |-> "Vertex"]],
     data |-> [cell |-> <<>>, point |-> <<>>]]

\* impl From<Particles<R>> for UnstructuredGridPiece
UnstructuredGridPiece_from(particles, R) ==
    [points |-> IOBuffer_from(ExtendAll(particles), R),
     cells |-> [cell_verts |-> [vertices |-> VertexCells(Len(particles)),
                                num_cells |-> Len(particles),
                                format |-> "Legacy"],
                types |-> [n \in 1..Len(particles) |-> "Vertex"]],
     data |-> [cell |-> <<>>, point |-> <<>>]]

\* DataPiece::UnstructuredGrid(p)
DataPiece_UnstructuredGrid(p) ==
    [points |-> p.points, cells |-> p.cells, piece |-> "UnstructuredGrid", data |-> p.data]

\* DataPiece::load_as_particles
load_as_particles(self) ==
    IF self.points.kind \in {"F64", "F32"}
    THEN particles_from_coords(self.points.coords)
    ELSE VErr("Point coordinate IOBuffer does not contain f32 or f64 values")

\* The coordinates of a particle of the float type R and the positions.
CoordsOfR == {InT(-TargetMax), InT(1), InT(TargetMax)}
PositionChoices == {<<x, y, z>> : x \in CoordsOfR, y \in CoordsOfR, z \in CoordsOfR}

InitRound ==
    /\ IdleLut
    /\ IdleRecon
    /\ IdlePool
    /\ IdleConv
    /\ IdleMono
    /\ IdleGrid
    /\ IdleWs
    /\ vtk_in \in [R : RealKinds, particles : SeqsUpTo(PositionChoices, MaxPositions)]
    /\ vtk_out = Pending

\* UnstructuredGridPiece::from(Particles(particles))
UnstructuredGridPiece_from_call ==
    /\ Len(vtk_out) = 0
    /\ vtk_out' = <<UnstructuredGridPiece_from(vtk_in.particles, vtk_in.R)>>
    /\ UNCHANGED <<vtk_in, exceptVtk>>

\* DataPiece::UnstructuredGrid(piece).load_as_particles::<R>()
load_as_particles_call ==
    /\ Len(vtk_out) = 1
    /\ vtk_out' = Append(vtk_out, load_as_particles(DataPiece_UnstructuredGrid(vtk_out[1])))
    /\ UNCHANGED <<vtk_in, exceptVtk>>

NextRound ==
    \/ UnstructuredGridPiece_from_call
    \/ load_as_particles_call

SpecRound == InitRound /\ [][NextRound]_vars

-----------------------------------------------------------------------------
(* The index algebra of the uniform grid: flat indices of points and cells. *)

\* The largest number of cells per axis of the grids looked at.
MaxCellsPerDim == 3

\* The grids: their cells per axis and, one more per axis, their points.
GridCellCounts == (1..MaxCellsPerDim) \X (1..MaxCellsPerDim) \X (1..MaxCellsPerDim)
PointCounts(n_cells) == [a \in Axes |-> n_cells[a] + 1]

\* The per-axis counts (nx, ny, nz) of the elements of one kind.
CountsOf(n_cells, kind) == IF kind = "point" THEN PointCounts(n_cells) ELSE n_cells

\* The in-range coordinates (i, j, k) and the number of elements.
Coordinates(n) == (0..(n[1] - 1)) \X (0..(n[2] - 1)) \X (0..(n[3] - 1))
NumElements(n) == n[1] * n[2] * n[3]

\* The flattening with the count of the first axis in place of the second.
Flatten_wrong_axis(n, ijk) == (ijk[1] * n[1] + ijk[2]) * n[3] + ijk[3]

\* flat = (i*ny + j)*nz + k
Flatten(n, ijk) == (ijk[1] * n[2] + ijk[2]) * n[3] + ijk[3]

\* The inverse: i, j and k by division with remainder, None for a flat index
\* that is not of the grid.
Unflatten(n, flat) ==
    LET i == flat \div (n[2] * n[3])
        j == (flat - i * n[2] * n[3]) \div n[3]
        k == flat - i * n[2] * n[3] - j * n[3]
    IN  IF flat >= 0 /\ i < n[1] /\ j < n[2] /\ k < n[3]
        THEN Some(<<i, j, k>>)
        ELSE NoneV

\* The lookups: a coordinate to flatten or a flat index to unflatten, of the
\* points or of the cells of a grid.
GridLookups ==
    UNION {[op : {"flatten"}, n_cells : {c}, kind : {kind},
            ijk : Coordinates(CountsOf(c, kind)), flat : {-1}]
             \cup [op : {"unflatten"}, n_cells : {c}, kind : {kind},
                   ijk : {<<>>}, flat : 0..(NumElements(CountsOf(c, kind)) - 1)] :
           c \in GridCellCounts, kind \in {"point", "cell"}}

InitGrid ==
    /\ IdleLut
    /\ IdleRecon
    /\ IdlePool
    /\ IdleConv
    /\ IdleMono
    /\ IdleVtk
    /\ IdleWs
    /\ grid_in \in GridLookups
    /\ grid_out = Pending

\* A coordinate is flattened and the flat index is mapped back.
flatten_call ==
    /\ grid_in # NoneV
    /\ grid_out = Pending
    /\ grid_in.op = "flatten"
    /\ LET n == CountsOf(grid_in.n_cells, grid_in.kind)
           flat == Flatten(n, grid_in.ijk)
       IN  grid_out' = <<[ijk |-> Unflatten(n, flat), flat |-> flat]>>
    /\ UNCHANGED <<grid_in, exceptGrid>>

\* A flat index is mapped to its coordinate and the coordinate is flattened.
unflatten_call ==
    /\ grid_in # NoneV
    /\ grid_out = Pending
    /\ grid_in.op = "unflatten"
    /\ LET n == CountsOf(grid_in.n_cells, grid_in.kind)
           ijk == Unflatten(n, grid_in.flat)
       IN  grid_out' = <<[ijk |-> ijk,
                          flat |-> IF ijk = NoneV THEN -1 ELSE Flatten(n, Unwrap(ijk))]>>
    /\ UNCHANGED <<grid_in, exceptGrid>>

NextGrid ==
    \/ flatten_call
    \/ unflatten_call

SpecGrid == InitGrid /\ [][NextGrid]_vars

-----------------------------------------------------------------------------
(* workspace.rs: threads that take their local workspace from one          *)
(* ReconstructionWorkspace, borrow it, write to it and give it back.        *)

\* The number of threads that call into the workspace.
NumWorkers == 2

Workers == 1..NumWorkers

\* The largest capacity a thread asks for and the most elements a thread puts
\* into a buffer.
MaxCapacity == 1
MaxBufferLen == 2

\* The accessor whose reference a thread got last and still holds.
NoAccessor == [capacity |-> 0, fn |-> "none"]
Accessors ==
    {[capacity |-> 0, fn |-> "get_local"]}
        \cup {[capacity |-> c, fn |-> "get_local_with_capacity"] : c \in 0..MaxCapacity}

\* The workspace after the accessor has run on thread t.
Accessed(workspace, t, accessor) ==
    IF accessor.fn = "get_local"
    THEN get_local(workspace, t)
    ELSE get_local_with_capacity(workspace, t, accessor.capacity)

InitWs ==
    /\ IdleLut
    /\ IdleRecon
    /\ IdlePool
    /\ IdleConv
    /\ IdleMono
    /\ IdleVtk
    /\ IdleGrid
    /\ shared_workspace = WorkspaceOver(Workers)
    /\ ws_pc = [t \in Workers |-> "idle"]
    /\ ws_arg = [t \in Workers |-> NoAccessor]
    /\ ws_ref = [t \in Workers |-> 0]
    /\ ws_first = [t \in Workers |-> 0]
    /\ ws_borrow = [slot \in Workers |-> 0]

\* Thread t calls get_local or get_local_with_capacity: get_or looks at the
\* thread's slot and returns the local workspace it finds; when it finds none
\* it goes on to make one.
get_local_lookup(t) ==
    /\ ws_pc[t] = "idle"
    /\ \E accessor \in Accessors :
          IF shared_workspace.local_workspaces[SlotOf(t)] # NoneV
          THEN /\ shared_workspace' = Accessed(shared_workspace, t, accessor)
               /\ ws_pc' = [ws_pc EXCEPT ![t] = "held"]
               /\ ws_ref' = [ws_ref EXCEPT ![t] = SlotOf(t)]
               /\ ws_first' = [ws_first EXCEPT ![t] = IF @ = 0 THEN SlotOf(t) ELSE @]
               /\ ws_arg' = [ws_arg EXCEPT ![t] = accessor]
          ELSE /\ ws_pc' = [ws_pc EXCEPT ![t] = "init"]
               /\ ws_arg' = [ws_arg EXCEPT ![t] = accessor]
               /\ UNCHANGED <<shared_workspace, ws_ref, ws_first>>
    /\ UNCHANGED <<ws_borrow, exceptWs>>

\* get_or puts the value of its closure into the slot of thread t and returns
\* the reference to it.
get_local_insert(t) ==
    /\ ws_pc[t] = "init"
    /\ shared_workspace' = Accessed(shared_workspace, t, ws_arg[t])
    /\ ws_pc' = [ws_pc EXCEPT ![t] = "held"]
    /\ ws_ref' = [ws_ref EXCEPT ![t] = SlotOf(t)]
    /\ ws_first' = [ws_first EXCEPT ![t] = IF @ = 0 THEN SlotOf(t) ELSE @]
    /\ UNCHANGED <<ws_arg, ws_borrow, exceptWs>>

\* .borrow_mut() on the RefCell thread t holds: the borrow, or the panic of a
\* RefCell that is borrowed already.
borrow_mut(t) ==
    /\ ws_pc[t] = "held"
    /\ IF ws_borrow[ws_ref[t]] = 0
       THEN /\ ws_borrow' = [ws_borrow EXCEPT ![ws_ref[t]] = t]
            /\ ws_pc' = [ws_pc EXCEPT ![t] = "borrowed"]
       ELSE /\ ws_pc' = [ws_pc EXCEPT ![t] = "panic"]
            /\ UNCHANGED ws_borrow
    /\ UNCHANGED <<shared_workspace, ws_arg, ws_ref, ws_first, exceptWs>>

\* The reconstruction step of thread t stores one more particle in the buffers
\* of the local workspace it has borrowed.
write_buffers(t) ==
    /\ ws_pc[t] = "borrowed"
    /\ Unwrap(shared_workspace.local_workspaces[ws_ref[t]]).particle_positions.len
          < MaxBufferLen
    /\ shared_workspace' =
          [shared_workspace EXCEPT
              !.local_workspaces[ws_ref[t]] =
                  Some([Unwrap(@) EXCEPT
                          !.particle_positions = Vec_push(@),
                          !.particle_neighbor_lists = Vec_push(@),
                          !.particle_densities = Vec_push(@)])]
    /\ UNCHANGED <<ws_pc, ws_arg, ws_ref, ws_first, ws_borrow, exceptWs>>

\* The RefMut and the reference of thread t go out of scope.
drop_borrow(t) ==
    /\ ws_pc[t] = "borrowed"
    /\ ws_borrow' = [ws_borrow EXCEPT ![ws_ref[t]] = 0]
    /\ ws_pc' = [ws_pc EXCEPT ![t] = "idle"]
    /\ ws_ref' = [ws_ref EXCEPT ![t] = 0]
    /\ ws_arg' = [ws_arg EXCEPT ![t] = NoAccessor]
    /\ UNCHANGED <<shared_workspace, ws_first, exceptWs>>

NextWs ==
    \E t \in Workers :
        \/ get_local_lookup(t)
        \/ get_local_insert(t)
        \/ borrow_mut(t)
        \/ write_buffers(t)
        \/ drop_borrow(t)

SpecWs == InitWs /\ [][NextWs]_vars

-----------------------------------------------------------------------------
(* The lookup as a process: test_lut draws a case number, makes the flags  *)
(* from it and drives the iterator to its end.                             *)

InitLut ==
    /\ case \in 0..(Pow2(NumFlags) - 1)
    /\ vertices_inside = index_to_flags(case)
    /\ lut_pc = "call"
    /\ index = 0
    /\ triangulation = <<>>
    /\ tri_i = 0
    /\ yielded = <<>>
    /\ IdleRecon
    /\ IdlePool
    /\ IdleConv
    /\ IdleMono
    /\ IdleVtk
    /\ IdleGrid
    /\ IdleWs

\* get_marching_cubes_triangulation_raw: the index of the flags, then the
\* bounds-checked access &MARCHING_CUBES_TABLE[index], which panics when the index
\* is outside the table.
get_marching_cubes_triangulation_raw ==
    /\ lut_pc = "call"
    /\ index' = flags_to_index(vertices_inside)
    /\ IF index' \in 0..(Len(MARCHING_CUBES_TABLE) - 1)
       THEN /\ triangulation' = MARCHING_CUBES_TABLE[index' + 1]
            /\ lut_pc' = "iter"
       ELSE /\ triangulation' = <<>>
            /\ lut_pc' = "panic"
    /\ UNCHANGED <<case, vertices_inside, tri_i, yielded, exceptLut>>

\* One step of (0..5).map(|i| triangulation_to_triangle(triangulation, i)).flatten():
\* the next i of the range; a None is skipped, a Some is yielded.
iter_next ==
    /\ lut_pc = "iter"
    /\ tri_i < IterRange
    /\ LET t == triangulation_to_triangle(triangulation, tri_i)
       IN  yielded' = IF t = None THEN yielded ELSE Append(yielded, t)
    /\ tri_i' = tri_i + 1
    /\ UNCHANGED <<case, vertices_inside, lut_pc, index, triangulation, exceptLut>>

\* The range is exhausted: the iterator returns None for good.
iter_end ==
    /\ lut_pc = "iter"
    /\ tri_i >= IterRange
    /\ lut_pc' = "done"
    /\ UNCHANGED <<case, vertices_inside, index, triangulation, tri_i, yielded, exceptLut>>

NextLut ==
    \/ get_marching_cubes_triangulation_raw
    \/ iter_next
    \/ iter_end

SpecLut == InitLut /\ [][NextLut]_vars

-----------------------------------------------------------------------------
(* Properties of the lookup table and its iterator (checked under SpecLut) *)

\* The iterator holds a row of the table.
HasRow == lut_pc \in {"iter", "done"}

\* The raw triplet t (0-based) of a row, as a sequence.
RawTriplet(row, t) == <<At(row, 3 * t), At(row, 3 * t + 1), At(row, 3 * t + 2)>>

\* The elements of a sequence.
Range(sq) == {sq[n] : n \in 1..Len(sq)}

\* The number of triplets of a row that are not all padding.
NonPadTriplets(row) ==
    Cardinality({t \in 0..((RowLen \div 3) - 1) : Range(RawTriplet(row, t)) # {-1}})

\* The number of entries of a row that differ from -1.
NonPadEntries(row) == Cardinality({j \in 0..(RowLen - 1) : At(row, j) # -1})

\* The sum of 2^k over the corners k that are inside.
RECURSIVE MaskSum(_, _)
MaskSum(flags, k) ==
    IF k < 0 THEN 0 ELSE (IF flags[k] THEN Pow2(k) ELSE 0) + MaskSum(flags, k - 1)

\* C1: for every corner configuration the iterator yields exactly as many
\* triangles as the raw row has non-padding triplets; the n-th yielded triangle
\* holds the same three edge indices as the n-th raw triplet, and the raw triplet
\* after the last yielded triangle starts with -1.
C1_IterMatchesRawRow ==
    lut_pc = "done" =>
        /\ Len(yielded) = NonPadTriplets(triangulation)
        /\ \A n \in 1..Len(yielded) :
              Range(yielded[n]) = Range(RawTriplet(triangulation, n - 1))
        /\ At(triangulation, 3 * Len(yielded)) = -1

C1_Witness == lut_pc = "done" /\ Len(yielded) = IterRangeEnd

\* C2: the n-th yielded triangle is the n-th raw triplet [a, b, c] of the row in
\* reversed order [c, b, a], at every point of the iteration.
C2_TripletsReversedInOrder ==
    HasRow =>
        \A n \in 1..Len(yielded) :
            LET raw == RawTriplet(triangulation, n - 1)
            IN  yielded[n] = <<raw[3], raw[2], raw[1]>>

C2_Witness ==
    /\ lut_pc = "done"
    /\ Len(yielded) >= 2
    /\ yielded[1] # yielded[2]
    /\ yielded[1][1] # yielded[1][3]

\* C3: for every mask m in 0..255, the flags made from m have element k = bit k
\* of m, flags_to_index of them is m, and flags_to_index maps the 256 boolean
\* arrays onto 256 different indices.
C3_FlagRoundTrip ==
    /\ \A k \in 0..(NumFlags - 1) :
          vertices_inside[k] = ((case \div Pow2(k)) % 2 = 1)
    /\ lut_pc # "call" => index = case
    /\ lut_pc = "done" =>
          Cardinality({flags_to_index(f) : f \in [0..(NumFlags - 1) -> BOOLEAN]})
              = Pow2(NumFlags)

C3_Witness == lut_pc = "done" /\ case = 254 /\ index = 254

\* C4: the row returned is the row whose index is the sum of 2^k over the inside
\* corners (corners 0 and 2 select row 5), and the index is always within
\* 0..255: the lookup never goes out of bounds.
C4_RowOfMaskSum ==
    /\ lut_pc # "panic"
    /\ lut_pc # "call" =>
          /\ index = MaskSum(vertices_inside, NumFlags - 1)
          /\ index \in 0..255
          /\ triangulation = ClassicTable[MaskSum(vertices_inside, NumFlags - 1) + 1]
          /\ ({k \in 0..(NumFlags - 1) : vertices_inside[k]} = {0, 2}) =>
                /\ index = 5
                /\ triangulation =
                     <<0, 8, 3, 1, 2, 10, -1, -1, -1, -1, -1, -1, -1, -1, -1, -1>>

C4_Witness ==
    /\ lut_pc = "iter"
    /\ {k \in 0..(NumFlags - 1) : vertices_inside[k]} = {0, 2}
    /\ index = 5

\* The corner array [true, false, true, false, false, false, false, false].
Corners02 == [k \in 0..(NumFlags - 1) |-> k \in {0, 2}]

\* C5 as stated: corners [T,F,T,F,F,F,F,F] yield [[10, 2, 1], [7, 4, 8]].
C5_AsStated ==
    (lut_pc = "done" /\ vertices_inside = Corners02) =>
        yielded = << <<10, 2, 1>>, <<7, 4, 8>> >>

\* C5 (amended): corners [T,F,T,F,F,F,F,F] select row 5 and yield exactly the
\* two triangles [[3, 8, 0], [10, 2, 1]], in that order.
C5_Case5Triangles ==
    (lut_pc = "done" /\ vertices_inside = Corners02) =>
        yielded = << <<3, 8, 0>>, <<10, 2, 1>> >>

C5_Witness == lut_pc = "done" /\ vertices_inside = Corners02 /\ Len(yielded) = 2

\* C6: the iterator yields at most 5 triangles, and entry 15 of the row it reads
\* is -1.
C6_AtMostFiveAndPadded ==
    /\ Len(yielded) <= 5
    /\ HasRow => At(triangulation, RowLen - 1) = -1

C6_Witness ==
    /\ lut_pc = "done"
    /\ Len(yielded) = 5
    /\ At(triangulation, RowLen - 2) # -1

-----------------------------------------------------------------------------
(* Properties of the reconstruction entry points (checked under SpecRecon) *)

\* The mesh reconstruct_surface gives for the arguments of a call, i.e. the mesh
\* of the same call on a fresh handle.
FreshMesh(c) == reconstruct_surface(c.particle_positions, c.parameters, 1, "Ok").surface.mesh

\* The outcome of the grid construction for the arguments of a call.
GridOfCall(c) ==
    grid_for_reconstruction(
        c.particle_positions, c.parameters.particle_radius,
        c.parameters.kernel_radius, c.parameters.cube_size,
        c.parameters.domain_aabb, c.parameters.enable_multi_threading)

\* C8: after any sequence of calls on one handle, a successful call leaves in the
\* handle's mesh only what that call produced from its own particles and
\* parameters: the mesh equals the mesh of the same call on a fresh handle, has
\* at most one patch per particle of the call, and all its vertices stem from
\* particles of the call.
C8_MeshIsOfLastCallOnly ==
    ret.kind = "Ok" =>
        /\ output_surface.mesh = FreshMesh(call)
        /\ Len(output_surface.mesh.triangles) <= Len(call.particle_positions)
        /\ \A n \in 1..Len(output_surface.mesh.vertices) :
              output_surface.mesh.vertices[n][1] \in Range(call.particle_positions)

\* A successful global reconstruction with a particle on a handle that an
\* earlier decomposed reconstruction with a particle has filled.
C8_Witness ==
    /\ call.fn = "reconstruct_surface_inplace"
    /\ ret.kind = "Ok"
    /\ call.parameters.spatial_decomposition = NoneV
    /\ Len(output_surface.mesh.triangles) >= 1
    /\ output_surface.octree # NoneV
    /\ Len(Unwrap(output_surface.octree).leaves) >= 1

\* C9: a call whose grid construction fails returns the grid construction error
\* and nothing else; reconstruct_surface_inplace then leaves the mesh of the
\* handle empty and the grid, octree, density map and workspace as they were.
C9_GridFailureAborts ==
    [][ (call'.fn # "none" /\ ~GridOfCall(call').ok) =>
            /\ ret'.kind = "Err"
            /\ ret'.error = GridOfCall(call').error
            /\ ret'.error[1] = "GridConstructionError"
            /\ ~ret'.surface
            /\ call'.fn = "reconstruct_surface_inplace" =>
                  /\ output_surface'.mesh = EmptyMesh
                  /\ output_surface'.grid = output_surface.grid
                  /\ output_surface'.octree = output_surface.octree
                  /\ output_surface'.density_map = output_surface.density_map
                  /\ output_surface'.workspace = output_surface.workspace
            /\ call'.fn = "reconstruct_surface" => output_surface' = output_surface
      ]_vars

\* A failed reconstruct_surface_inplace on a handle that holds the grid and the
\* octree of an earlier reconstruction with a particle.
C9_Witness ==
    /\ call.fn = "reconstruct_surface_inplace"
    /\ ret.kind = "Err"
    /\ output_surface.grid # ZeroGrid
    /\ output_surface.octree # NoneV
    /\ Len(Unwrap(output_surface.octree).leaves) >= 1
    /\ output_surface.mesh = EmptyMesh

\* C10: a reconstruction called with an empty particle list fails with the error
\* kind DegenerateInput and produces no mesh.
C10_EmptyInputIsDegenerate ==
    (call.fn # "none" /\ call.particle_positions = <<>>) =>
        /\ ret.kind = "Err"
        /\ ret.error = <<"DegenerateInput">>
        /\ output_surface.mesh = EmptyMesh

\* C13: a clone of a handle has the grid, octree, density map and mesh of the
\* original and a new, empty default workspace, whatever the original's
\* workspace holds; cloning leaves the original as it was.
C13_CloneHasFreshWorkspace ==
    /\ [](cloned # NoneV =>
            /\ Unwrap(cloned).grid = output_surface.grid
            /\ Unwrap(cloned).octree = output_surface.octree
            /\ Unwrap(cloned).density_map = output_surface.density_map
            /\ Unwrap(cloned).mesh = output_surface.mesh
            /\ Unwrap(cloned).workspace = ReconstructionWorkspace_default)
    /\ [][cloned' # NoneV /\ cloned = NoneV => output_surface' = output_surface]_vars

\* A clone of a handle whose workspace holds an allocated thread local
\* workspace and whose mesh is not empty.
C13_Witness ==
    /\ cloned # NoneV
    /\ \E t \in Threads : output_surface.workspace.local_workspaces[t] # NoneV
    /\ output_surface.mesh # EmptyMesh
    /\ Unwrap(cloned).mesh = output_surface.mesh

GridOverGrown(base, parameters) ==
    UniformGridFromAabb(
        GrowUniformly(base, parameters.particle_radius
                              + KernelEvaluationRadius(parameters.kernel_radius,
                                                       parameters.cube_size)),
        parameters.cube_size)

\* C15: the grid of a successful reconstruction is the grid over the domain
\* box grown on every side by particle_radius + kernel_evaluation_radius, the
\* domain box being the box of the particles when no domain_aabb is given and
\* the given domain_aabb otherwise.
C15_GridOverGrownDomain ==
    (call.fn # "none" /\ ret.kind = "Ok") =>
        LET base == IF call.parameters.domain_aabb # NoneV
                    THEN Unwrap(call.parameters.domain_aabb)
                    ELSE AabbFromPoints(call.particle_positions)
            made == GridOverGrown(base, call.parameters)
        IN  /\ made.ok
            /\ output_surface.grid = made.grid

\* C16: a successful reconstruction takes the octree path exactly when
\* spatial_decomposition is present: with it the handle holds the octree of the
\* call's particles; without it octree() returns None and the mesh is that of
\* one reconstruction over all particles, also on a handle that was used with
\* decomposition before.
C16_OctreeExactlyWithDecomposition ==
    (call.fn # "none" /\ ret.kind = "Ok") =>
        IF call.parameters.spatial_decomposition = NoneV
        THEN /\ output_surface.octree = NoneV
             /\ output_surface.mesh =
                    reconstruct_single_surface_append(
                        output_surface.grid, call.particle_positions,
                        call.parameters, EmptyMesh)
        ELSE output_surface.octree = Some(OctreeOf(call.particle_positions))

\* C23: on the decomposed path a failure while setting up the octree-based
\* reconstruction aborts the reconstruction and is returned to the caller as an
\* Err value of ReconstructionError, as every other reconstruction error is;
\* the call does not terminate abnormally.
C23_OctreeSetupFailureReturned ==
    (call.fn # "none" /\ call.octree_setup = "Err") =>
        /\ ret.kind = "Err"
        /\ ret.error[1] \in {"GridConstructionError", "Unknown"}

-----------------------------------------------------------------------------
(* Properties of the thread pool (checked under SpecPool)                  *)

\* C11: in any sequence of calls of initialize_thread_pool, a call returns Ok
\* only if the pool had not been initialized before it, every call after a
\* successful one returns an error, and a failing call leaves the pool as it
\* was; the pool, once initialized, keeps the size it was given.
C11_PoolInitializedOnce ==
    /\ \A i \in 1..Len(pool_log) :
          /\ pool_log[i].result.kind = "Ok" =>
                /\ pool_log[i].before = NoneV
                /\ pool_log[i].after = Some(pool_log[i].num_threads)
                /\ \A j \in (i + 1)..Len(pool_log) :
                      /\ pool_log[j].result.kind = "Err"
                      /\ pool_log[j].after = pool_log[i].after
          /\ pool_log[i].before # NoneV => pool_log[i].result.kind = "Err"
          /\ pool_log[i].result.kind = "Err" => pool_log[i].after = pool_log[i].before
    /\ Cardinality({i \in 1..Len(pool_log) : pool_log[i].result.kind = "Ok"}) <= 1
    /\ pool_log # <<>> => pool = pool_log[Len(pool_log)].after

\* A failed first call, a successful second one and a refused third one that
\* asks for another size.
C11_Witness ==
    /\ Len(pool_log) >= 3
    /\ pool_log[1].result.kind = "Err"
    /\ pool_log[2].result.kind = "Ok"
    /\ pool_log[3].result.kind = "Err"
    /\ pool_log[3].num_threads # pool_log[2].num_threads
    /\ pool = Some(pool_log[2].num_threads)

-----------------------------------------------------------------------------
(* Properties of Parameters::try_convert (checked under SpecConv)          *)

\* The real values of a Parameters value that are present, and whether one of
\* them is outside the target kind.
RealsOfDecomposition(sd) ==
    IF sd = NoneV \/ Unwrap(sd).ghost_particle_safety_factor = NoneV
    THEN {}
    ELSE {Unwrap(Unwrap(sd).ghost_particle_safety_factor)}

RealsOfAabb(opt) ==
    IF opt = NoneV THEN {} ELSE {Unwrap(opt).min[a] : a \in Axes} \cup {Unwrap(opt).max[a] : a \in Axes}

PresentReals(p) ==
    {p.particle_radius, p.rest_density, p.kernel_radius, p.cube_size, p.iso_surface_threshold}
        \cup (IF p.splash_detection_radius = NoneV THEN {} ELSE {Unwrap(p.splash_detection_radius)})
        \cup RealsOfAabb(p.domain_aabb)
        \cup RealsOfDecomposition(p.spatial_decomposition)

Fits(v) == -TargetMax <= v /\ v <= TargetMax

\* C12: try_convert returns None exactly when a present real field does not
\* fit the target kind; otherwise every real field of the result is the
\* converted value of the input's field, absent optional fields stay absent,
\* and enable_multi_threading, enable_stitching and subdivision_criterion are
\* copied unchanged.
C12_TryConvertAllOrNothing ==
    conv_out # Pending =>
        LET out == conv_out[1]
            p == conv_in
        IN  /\ (out = NoneV) <=> (\E v \in PresentReals(p) : ~Fits(v))
            /\ out # NoneV =>
                 LET q == Unwrap(out)
                 IN  /\ q.particle_radius = InT(p.particle_radius)
                     /\ q.rest_density = InT(p.rest_density)
                     /\ q.kernel_radius = InT(p.kernel_radius)
                     /\ q.cube_size = InT(p.cube_size)
                     /\ q.iso_surface_threshold = InT(p.iso_surface_threshold)
                     /\ q.enable_multi_threading = p.enable_multi_threading
                     /\ (q.splash_detection_radius = NoneV) <=> (p.splash_detection_radius = NoneV)
                     /\ q.splash_detection_radius # NoneV =>
                          Unwrap(q.splash_detection_radius) = InT(Unwrap(p.splash_detection_radius))
                     /\ (q.domain_aabb = NoneV) <=> (p.domain_aabb = NoneV)
                     /\ q.domain_aabb # NoneV =>
                          \A a \in Axes :
                             /\ Unwrap(q.domain_aabb).min[a] = InT(Unwrap(p.domain_aabb).min[a])
                             /\ Unwrap(q.domain_aabb).max[a] = InT(Unwrap(p.domain_aabb).max[a])
                     /\ (q.spatial_decomposition = NoneV) <=> (p.spatial_decomposition = NoneV)
                     /\ q.spatial_decomposition # NoneV =>
                          LET qs == Unwrap(q.spatial_decomposition)
                              ps == Unwrap(p.spatial_decomposition)
                          IN  /\ qs.enable_stitching = ps.enable_stitching
                              /\ qs.subdivision_criterion = ps.subdivision_criterion
                              /\ (qs.ghost_particle_safety_factor = NoneV)
                                    <=> (ps.ghost_particle_safety_factor = NoneV)
                              /\ qs.ghost_particle_safety_factor # NoneV =>
                                   Unwrap(qs.ghost_particle_safety_factor)
                                      = InT(Unwrap(ps.ghost_particle_safety_factor))

\* A conversion that fails only because of the optional splash detection
\* radius.
C12_Witness ==
    /\ conv_out = <<NoneV>>
    /\ conv_in.splash_detection_radius = Some(TargetMax + 1)
    /\ \A v \in PresentReals([conv_in EXCEPT !.splash_detection_radius = NoneV]) : Fits(v)

-----------------------------------------------------------------------------
(* Monotonicity in the threshold (checked under SpecMono)                   *)

\* C18 as stated: for thresholds t1 < t2 and every cube, if the mask built
\* with t2 yields at least one triangle, the mask built with t1 yields at
\* least one as well.
C18_AsStated ==
    mono_out # Pending =>
        (Len(mono_out[1].high) >= 1 => Len(mono_out[1].low) >= 1)

\* C18: for thresholds t1 < t2 and every cube, if the mask built with t2 yields
\* at least one triangle, the mask built with t1 yields at least one as well,
\* unless the densities of all eight corners exceed t1.
C18_MonotoneUnlessAllInside ==
    mono_out # Pending =>
        ((/\ Len(mono_out[1].high) >= 1
          /\ \E k \in 0..(NumFlags - 1) : mono_in.densities[k] <= mono_in.thresholds[1])
            => Len(mono_out[1].low) >= 1)

\* A cube with triangles for both thresholds, from different rows of the table:
\* one corner above t2, another one between the thresholds, a third below t1.
C18_Witness ==
    /\ mono_out # Pending
    /\ Len(mono_out[1].high) >= 1
    /\ Len(mono_out[1].low) >= 1
    /\ mono_out[1].high # mono_out[1].low
    /\ \E k \in 0..(NumFlags - 1) : mono_in.densities[k] <= mono_in.thresholds[1]

-----------------------------------------------------------------------------
(* Properties of the VTK loader (checked under SpecVtk)                     *)

\* C19: every mesh load_as_surface_mesh / surface_mesh_from_unstructured_grid
\* returns with Ok has, in every triangle, three indices that are smaller than
\* the number of loaded vertices.
C19_LoadedTrianglesIndexVertices ==
    (vtk_out # Pending /\ vtk_out[1].kind = "Ok") =>
        LET mesh == Unwrap(vtk_out[1].value)
        IN  \A n \in 1..Len(mesh.triangles) :
                \A m \in 1..3 : mesh.triangles[n][m] < Len(mesh.vertices)

\* The cells of the piece's cell vertex array in legacy form and the closing
\* result of the point buffer.
CellsOfPiece(piece) == LegacyCellVerts(piece.cell_verts).vertices
PointsLoad(piece) ==
    IF piece.points.kind \in {"F64", "F32"}
    THEN particles_from_coords(piece.points.coords).kind
    ELSE "Err"

\* C22: surface_mesh_from_unstructured_grid returns an error when the length of
\* the cell vertex array is not a multiple of 4; otherwise it accepts a cell
\* exactly when its leading vertex count is 3, emitting the triangles
\* [v1, v2, v3] of the cells in input order, and returns the "Expected only
\* triangle cells" error when some cell has a vertex count other than 3.
C22_TriangleCellsHaveCountThree ==
    (/\ vtk_out # Pending
     /\ vtk_in.piece = "UnstructuredGrid"
     /\ PointsLoad(vtk_in) = "Ok") =>
        LET cell_verts == CellsOfPiece(vtk_in)
            num == Len(cell_verts) \div 4
        IN  IF Len(cell_verts) % 4 # 0
            THEN /\ vtk_out[1].kind = "Err"
                 /\ vtk_out[1].error
                        = "Length of cell vertex array is invalid. Expected 4 values per cell"
            ELSE IF \A n \in 0..(num - 1) : Chunk(cell_verts, n)[0] = 3
            THEN /\ vtk_out[1].kind = "Ok"
                 /\ Unwrap(vtk_out[1].value).triangles
                        = [n \in 1..num |->
                              <<Chunk(cell_verts, n - 1)[1], Chunk(cell_verts, n - 1)[2],
                                Chunk(cell_verts, n - 1)[3]>>]
            ELSE /\ vtk_out[1].kind = "Err"
                 /\ vtk_out[1].error
                        = "Expected only triangle cells. Invalid number of vertex indices"

-----------------------------------------------------------------------------
(* Properties of particles_from_coords (checked under SpecCoords)          *)

\* C27: particles_from_coords returns an error when the length of the
\* coordinate buffer is not divisible by 3, returns an error when the
\* conversion of any coordinate to the output float type fails, and otherwise
\* returns exactly len/3 points, point n being (coords[3n], coords[3n+1],
\* coords[3n+2]) in input order; an error carries no list of points.
C27_PointsOrErrorNothingPartial ==
    vtk_out # Pending =>
        LET coords == vtk_in
            r == vtk_out[1]
        IN  IF \/ Len(coords) % 3 # 0
               \/ \E n \in 1..Len(coords) : Real_try_convert(coords[n]) = NoneV
            THEN /\ r.kind = "Err"
                 /\ r.value = NoneV
            ELSE /\ r.kind = "Ok"
                 /\ Len(Unwrap(r.value)) = Len(coords) \div 3
                 /\ \A n \in 0..(Len(coords) \div 3 - 1) :
                        Unwrap(r.value)[n + 1]
                            = <<InT(coords[3 * n + 1]), InT(coords[3 * n + 2]),
                                InT(coords[3 * n + 3])>>

\* Two points are returned from a buffer of six coordinates.
C27_Witness ==
    /\ vtk_out # Pending
    /\ Len(vtk_in) = 6
    /\ vtk_out[1].kind = "Ok"
    /\ Len(Unwrap(vtk_out[1].value)) = 2
    /\ Unwrap(vtk_out[1].value)[1] # Unwrap(vtk_out[1].value)[2]

-----------------------------------------------------------------------------
(* Properties of load_point_attributes (checked under SpecAttr)            *)

\* The named arrays of a piece, data arrays and field members, in file order.
RECURSIVE NamedArrays(_)
NamedArrays(attributes) ==
    IF attributes = <<>>
    THEN <<>>
    ELSE LET last == attributes[Len(attributes)]
         IN  NamedArrays(SubSeq(attributes, 1, Len(attributes) - 1))
                \o (IF last.variant = "Field" THEN last.data_array ELSE <<last.data_array>>)

\* The arrays of a name and whether the first of them exists.
ArraysNamed(piece, name) == SelectSeq(NamedArrays(piece.data.point), LAMBDA a : a.name = name)
HasAttribute(piece, name) == ArraysNamed(piece, name) # <<>>

\* An array whose component count or buffer type is not supported.
Unsupported(a) ==
    \/ a.num_comp \notin {1, 3}
    \/ a.num_comp = 1 /\ a.data.kind # "U32"
    \/ a.num_comp = 3 /\ a.data.kind \notin {"F32", "F64"}

\* The values of a supported array as attribute data.
DataOfArray(a) ==
    IF a.num_comp = 1
    THEN [kind |-> "ScalarReal", values |-> [n \in 1..Len(a.data.coords) |-> InT(a.data.coords[n])]]
    ELSE [kind |-> "Vector3Real",
          values |-> [n \in 1..(Len(a.data.coords) \div 3) |->
                        <<InT(a.data.coords[3 * n - 2]), InT(a.data.coords[3 * n - 1]),
                          InT(a.data.coords[3 * n])>>]]

\* C28: load_point_attributes either returns exactly one attribute per
\* requested name, in the order of the requested names and each taken from the
\* first point attribute (data array or field member) of that name, or returns
\* an error and no attributes; an error results when a requested name matches
\* no attribute of the piece, or when the first attribute of a requested name
\* has an unsupported component count or buffer type.
C28_OneAttributePerNameOrError ==
    vtk_out # Pending =>
        LET piece == vtk_in.self
            names == vtk_in.names
            r == vtk_out[1]
        IN  /\ r.kind \in {"Ok", "Err"}
            /\ r.kind = "Err" => r.value = NoneV
            /\ r.kind = "Ok" =>
                    /\ Len(Unwrap(r.value)) = Len(names)
                    /\ \A n \in 1..Len(names) :
                          /\ HasAttribute(piece, names[n])
                          /\ Unwrap(r.value)[n].name = names[n]
                          /\ Unwrap(r.value)[n].data
                                = DataOfArray(ArraysNamed(piece, names[n])[1])
            /\ (\E n \in 1..Len(names) :
                    \/ ~HasAttribute(piece, names[n])
                    \/ Unsupported(ArraysNamed(piece, names[n])[1]))
                  => r.kind = "Err"

\* Two names are loaded, one of them from the first of two attributes of that
\* name with different values, of which one is a member of a field.
C28_Witness ==
    /\ vtk_out # Pending
    /\ vtk_out[1].kind = "Ok"
    /\ Len(vtk_in.names) = 2
    /\ vtk_in.names[1] # vtk_in.names[2]
    /\ \E n \in 1..2 :
          /\ Len(ArraysNamed(vtk_in.self, vtk_in.names[n])) = 2
          /\ ~Unsupported(ArraysNamed(vtk_in.self, vtk_in.names[n])[2])
          /\ DataOfArray(ArraysNamed(vtk_in.self, vtk_in.names[n])[2])
                # Unwrap(vtk_out[1].value)[n].data
          /\ \E k \in 1..Len(vtk_in.self.data.point) : vtk_in.self.data.point[k].variant = "Field"

-----------------------------------------------------------------------------
(* Properties of the particle round trip (checked under SpecRound)         *)

\* C29: the piece made of N particle positions holds 3N consecutive
\* coordinates and N cells of type Vertex, cell i being the pair (1, i), and
\* load_as_particles of that piece returns the same N positions in the same
\* order, for every N including 0.
C29_ParticlesRoundTrip ==
    LET N == Len(vtk_in.particles)
    IN  /\ Len(vtk_out) >= 1 =>
              /\ Len(vtk_out[1].points.coords) = 3 * N
              /\ \A n \in 0..(N - 1) : \A a \in 1..3 :
                    vtk_out[1].points.coords[3 * n + a] = vtk_in.particles[n + 1][a].value
              /\ vtk_out[1].cells.cell_verts.num_cells = N
              /\ Len(vtk_out[1].cells.cell_verts.vertices) = 2 * N
              /\ \A i \in 0..(N - 1) :
                    /\ vtk_out[1].cells.cell_verts.vertices[2 * i + 1] = 1
                    /\ vtk_out[1].cells.cell_verts.vertices[2 * i + 2] = i
              /\ vtk_out[1].cells.types = [n \in 1..N |-> "Vertex"]
        /\ Len(vtk_out) = 2 =>
              /\ vtk_out[2].kind = "Ok"
              /\ Unwrap(vtk_out[2].value) = vtk_in.particles

\* Two different particles with different coordinates came back.
C29_Witness ==
    /\ Len(vtk_out) = 2
    /\ vtk_out[2].kind = "Ok"
    /\ Len(vtk_in.particles) = 2
    /\ vtk_in.particles[1] # vtk_in.particles[2]
    /\ vtk_in.particles[1][1] # vtk_in.particles[1][3]
    /\ Len(Unwrap(vtk_out[2].value)) = 2

-----------------------------------------------------------------------------
(* Properties of the grid's index algebra (checked under SpecGrid)          *)

\* C20: with flat = (i*ny + j)*nz + k over the per-axis counts of the points or
\* of the cells, every in-range coordinate gets a flat index in
\* 0..nx*ny*nz-1 from which the inverse returns the coordinate, every flat
\* index in that range is the flat index of the in-range coordinate the inverse
\* returns for it, and no two in-range coordinates share a flat index.
C20_FlatteningIsBijection ==
    grid_out # Pending =>
        LET n == CountsOf(grid_in.n_cells, grid_in.kind)
        IN  /\ grid_in.op = "flatten" =>
                 /\ grid_out[1].flat \in 0..(NumElements(n) - 1)
                 /\ grid_out[1].ijk = Some(grid_in.ijk)
                 /\ \A other \in Coordinates(n) :
                       Flatten(n, other) = grid_out[1].flat => other = grid_in.ijk
            /\ grid_in.op = "unflatten" =>
                 /\ grid_out[1].ijk # NoneV
                 /\ Unwrap(grid_out[1].ijk) \in Coordinates(n)
                 /\ grid_out[1].flat = grid_in.flat

\* The last point of a grid with three different counts per axis: its flat
\* index is the last one and maps back to it.
C20_Witness ==
    /\ grid_out # Pending
    /\ grid_in.op = "flatten"
    /\ grid_in.kind = "point"
    /\ Cardinality({grid_in.n_cells[a] : a \in Axes}) = 3
    /\ grid_in.ijk = grid_in.n_cells
    /\ grid_out[1].flat = NumElements(PointCounts(grid_in.n_cells)) - 1
    /\ grid_out[1].ijk = Some(grid_in.ijk)

-----------------------------------------------------------------------------
(* The table against the cube description (checked under SpecLut)          *)

\* The edges of the cube whose two end corners have different inside flags.
CrossedEdges(flags) ==
    {e \in 0..(Len(CubeEdges) - 1) :
        flags[At(CubeEdges, e)[1]] # flags[At(CubeEdges, e)[2]]}

\* The edge indices referenced by a list of triangles.
EdgesOf(triangles) == UNION {Range(triangles[n]) : n \in 1..Len(triangles)}

\* C21: for every corner configuration the set of edge indices referenced by
\* the yielded triangles is exactly the set of cube edges whose two end corners
\* have different inside flags; no triangle is yielded iff all eight corners
\* agree.
C21_TrianglesOnCrossedEdges ==
    lut_pc = "done" =>
        /\ EdgesOf(yielded) = CrossedEdges(vertices_inside)
        /\ (yielded = <<>>) <=>
              (\A k \in 0..(NumFlags - 1) : vertices_inside[k] = vertices_inside[0])

\* Corners 1, 3, 4 and 6 inside: every one of the twelve edges is crossed and
\* every one is referenced.
C21_Witness ==
    /\ lut_pc = "done"
    /\ vertices_inside[1] /\ ~vertices_inside[0]
    /\ Cardinality(CrossedEdges(vertices_inside)) = Len(CubeEdges)
    /\ EdgesOf(yielded) = 0..(Len(CubeEdges) - 1)

\* C30: for every corner configuration every triangle the iterator yields
\* consists of three pairwise distinct edge indices, each of them in 0..11:
\* neither the padding value -1 nor an edge outside the cube appears in a
\* yielded triangle.
C30_TrianglesOfDistinctCubeEdges ==
    \A n \in 1..Len(yielded) :
        /\ Len(yielded[n]) = 3
        /\ \A a \in 1..3 : yielded[n][a] \in 0..11
        /\ yielded[n][1] # yielded[n][2]
        /\ yielded[n][2] # yielded[n][3]
        /\ yielded[n][1] # yielded[n][3]

\* Five triangles were yielded, and the first and the last edge of the cube
\* are among their corners.
C30_Witness ==
    /\ lut_pc = "done"
    /\ Len(yielded) = 5
    /\ {0, 11} \subseteq EdgesOf(yielded)

-----------------------------------------------------------------------------
(* Properties of the thread local workspaces (checked under SpecWs)        *)

\* The local workspace behind a reference.
LocalAt(workspace, slot) == Unwrap(workspace.local_workspaces[slot])

\* C24: for any interleaving of threads calling get_local or
\* get_local_with_capacity on one workspace, two distinct threads never obtain
\* the same local workspace, a thread obtains the same local workspace on every
\* call, the first-time initialization of a thread does not change the local
\* workspaces of other threads, and a local workspace is only ever borrowed by
\* the thread it belongs to (so no borrow fails).
C24_LocalWorkspacePerThread ==
    /\ [](\A t1, t2 \in Workers :
            (t1 # t2 /\ ws_first[t1] # 0 /\ ws_first[t2] # 0)
                => ws_first[t1] # ws_first[t2])
    /\ [](\A t \in Workers : ws_ref[t] # 0 => ws_ref[t] = ws_first[t])
    /\ [][\A t \in Workers :
            (ws_pc[t] = "init" /\ ws_pc'[t] = "held") =>
                \A other \in Workers \ {t} :
                    ws_first[other] # 0 =>
                        shared_workspace'.local_workspaces[ws_first[other]]
                            = shared_workspace.local_workspaces[ws_first[other]]]_vars
    /\ [](\A slot \in Workers :
            ws_borrow[slot] # 0 => ws_first[ws_borrow[slot]] = slot)
    /\ [](\A t \in Workers : ws_pc[t] # "panic")

\* Two threads have borrowed their local workspaces at the same time, one made
\* by get_local and filled, the other made with a capacity and still empty.
C24_Witness ==
    /\ \A t \in Workers : ws_pc[t] = "borrowed"
    /\ ws_ref[1] # ws_ref[2]
    /\ ws_arg[1].fn = "get_local"
    /\ ws_arg[2].fn = "get_local_with_capacity"
    /\ LocalAt(shared_workspace, ws_ref[1]).particle_positions.len = MaxBufferLen
    /\ LocalAt(shared_workspace, ws_ref[2]).particle_positions
          = Vec_with_capacity(MaxCapacity)

\* C25: get_local_with_capacity(c) initializes the local workspace of the
\* calling thread only if the thread has none yet, then with empty positions,
\* neighbor list and density buffers of capacity at least c and an empty mesh
\* and density map; a thread that has a local workspace gets it back unchanged,
\* contents and capacities as they were, whatever c is.
C25_InitializedOnlyWhenAbsent ==
    [][\A t \in Workers :
          (ws_arg'[t].fn = "get_local_with_capacity" /\ ws_pc[t] # "held"
                /\ ws_pc'[t] = "held") =>
              LET before == shared_workspace.local_workspaces[ws_ref'[t]]
                  after == LocalAt(shared_workspace', ws_ref'[t])
              IN  IF before # NoneV
                  THEN shared_workspace' = shared_workspace
                  ELSE /\ \A buffer \in {after.particle_positions,
                                         after.particle_neighbor_lists,
                                         after.particle_densities} :
                              /\ buffer.len = 0
                              /\ buffer.capacity >= ws_arg'[t].capacity
                       /\ after.mesh = EmptyMesh
                       /\ after.density_map = EmptyDensityMap
                       /\ \A slot \in Workers \ {ws_ref'[t]} :
                              shared_workspace'.local_workspaces[slot]
                                  = shared_workspace.local_workspaces[slot]]_vars

\* A thread has called get_local_with_capacity(0) and holds its filled local
\* workspace, whose buffers have kept their length and capacity.
C25_Witness ==
    \E t \in Workers :
        /\ ws_pc[t] = "held"
        /\ ws_arg[t] = [capacity |-> 0, fn |-> "get_local_with_capacity"]
        /\ LocalAt(shared_workspace, ws_ref[t]).particle_positions
              = [capacity |-> MaxBufferLen, len |-> MaxBufferLen]

=============================================================================
